---- MODULE Spec2Model ----
(***************************************************************************)
(* Status-polling engine of the issue dashboard.                           *)
(*                                                                         *)
(* Two implementations of usePollingWithBackoff exist in the repository:   *)
(*   hook A  (positional arguments, src/README.md:362), driven by          *)
(*           SessionStatus.fetchSession (src/src/components/               *)
(*           SessionStatus.tsx:48);                                        *)
(*   hook B  (options object, src/README.md:582), driven by a bare         *)
(*           fetch() (src/unnamed/part_000:40).                            *)
(* One behaviour of the model runs one hook instance: Init picks the hook. *)
(* The kind of the polled session (scope or execute) is a prop that only   *)
(* rendering reads; properties quantify over it.                           *)
(*                                                                         *)
(* React: every handler (effect, timer callback, continuation of an await, *)
(* retry()) runs to its next await as one step; the state updates it       *)
(* queued are rendered and the effects of that render are run before the   *)
(* next handler starts.  State updates of an unmounted component are       *)
(* dropped and its effects no longer run.                                  *)
(*                                                                         *)
(* Time: timers hold the milliseconds left until they fire.  Time advances *)
(* in steps of one second (every delay of the program is a multiple of     *)
(* 1000 ms); a timer that is due fires before time advances further and    *)
(* before a pending network response is delivered.  Timers due at the same *)
(* instant fire in either order.                                           *)
(*                                                                         *)
(* Optional values (T | null) are sets with at most one element.           *)
(*                                                                         *)
(* Spec runs the hooks.  CallSpec applies the pure functions               *)
(* (calculateBackoffDelay, deriveWorkflowStatus) and the render of         *)
(* StatusStrip to arguments drawn by its initial predicate.                *)
(***************************************************************************)
EXTENDS Integers, Sequences, FiniteSets, TLC

None == {}

Some(x) == {x}

The(s) == CHOOSE x \in s : TRUE

RemoveAt(s, i) == SubSeq(s, 1, i - 1) \o SubSeq(s, i + 1, Len(s))

(***************************************************************************)
(* Bounds of the model.                                                    *)
(***************************************************************************)
\* fetches of one hook instance that may be outstanding together
MaxInFlight == 2

\* largest failure count calculateBackoffDelay is called with
MaxFailureCount == 8

(***************************************************************************)
(* Program constants.                                                      *)
(***************************************************************************)
baseInterval == 15000

maxBackoff == 60000

failureThreshold == 5

normalInterval == 15000

maxFailures == 5

DEFAULT_BACKOFF == [baseDelay |-> 2000, maxDelay |-> 60000, multiplier |-> 2]

TRANSIENT_STATUS_CODES == {429, 502, 503, 504}

PERMANENT_STATUS_CODES == {404}

TERMINAL_STATUSES == {"finished", "failed", "cancelled", "expired", "blocked"}

\* period of both countdown tickers, in ms
TickMs == 1000

(***************************************************************************)
(* Arithmetic of the backoff calculators.                                  *)
(***************************************************************************)
RECURSIVE Pow(_, _)
Pow(b, e) == IF e <= 0 THEN 1 ELSE b * Pow(b, e - 1)

Min(a, b) == IF a <= b THEN a ELSE b

Max(a, b) == IF a >= b THEN a ELSE b

\* Math.ceil(ms / 1000)
CeilSeconds(ms) == (ms + 999) \div 1000

\* hook A: min(maxBackoff, baseInterval * 2^failureCount)
calculateBackoff(base, cap, failureCount) ==
    Min(base * Pow(2, failureCount), cap)

\* the exponent counted from 0, as hook A's calculator is called
calculateBackoffDelayFromZero(failureCount, config) ==
    Min(config.baseDelay * Pow(config.multiplier, failureCount), config.maxDelay)

\* hook B: min(maxDelay, baseDelay * multiplier^(failureCount - 1)), failureCount >= 1
calculateBackoffDelay(failureCount, config) ==
    Min(config.baseDelay * Pow(config.multiplier, failureCount - 1), config.maxDelay)

\* the backoff calculator of the specification, failures counted from 1
nextDelay(failureCount, base, cap, multiplier) ==
    Min(cap, base * Pow(multiplier, failureCount - 1))

(***************************************************************************)
(* Workflow Status Deriver (lib/workflowStatus).                           *)
(* A structured output is a record of the four keys getBlockingReason      *)
(* reads; Absent stands for a key that is missing or holds no string.      *)
(***************************************************************************)
Absent == "<absent>"

\* typeof v === 'string' && v
NonEmptyString(v) == v # Absent /\ v # ""

\* the extraction with needs_input looked at before blocking_issue
getBlockingReasonNeedsInputFirst(output) ==
    IF output = None THEN None
    ELSE LET o == The(output) IN
        IF NonEmptyString(o.needs_input) THEN Some(o.needs_input)
        ELSE IF NonEmptyString(o.blocking_issue) THEN Some(o.blocking_issue)
        ELSE IF o.current_task # Absent /\ o.needs_human_input = TRUE
             THEN Some(o.current_task)
        ELSE None

getBlockingReason(output) ==
    IF output = None THEN None
    ELSE LET o == The(output) IN
        IF NonEmptyString(o.blocking_issue) THEN Some(o.blocking_issue)
        ELSE IF NonEmptyString(o.needs_input) THEN Some(o.needs_input)
        ELSE IF o.current_task # Absent /\ o.needs_human_input = TRUE
             THEN Some(o.current_task)
        ELSE None

WorkflowStatus(label, kind, detail, isTerminal, needsAttention) ==
    [label |-> label, kind |-> kind, detail |-> detail,
     isTerminal |-> isTerminal, needsAttention |-> needsAttention]

\* a scope deriver whose switch has the default case only
deriveScopeStatusDefaultOnly(statusEnum, structuredOutput) ==
    WorkflowStatus(statusEnum, "pending", None, FALSE, FALSE)

deriveScopeStatus(statusEnum, structuredOutput) ==
    CASE statusEnum \in {"queued", "pending"} ->
            WorkflowStatus("Queued", "pending", None, FALSE, FALSE)
      [] statusEnum = "running" ->
            WorkflowStatus("Scoping...", "active", None, FALSE, FALSE)
      [] statusEnum = "blocked" ->
            IF structuredOutput # None
            THEN WorkflowStatus("Awaiting approval", "success",
                                Some("Scope complete - ready to execute"), TRUE, FALSE)
            ELSE WorkflowStatus("Processing...", "active", None, FALSE, FALSE)
      [] statusEnum = "paused" ->
            WorkflowStatus("Paused", "warning", None, FALSE, TRUE)
      [] statusEnum = "finished" ->
            WorkflowStatus("Scoped", "success", None, TRUE, FALSE)
      [] statusEnum = "failed" ->
            WorkflowStatus("Scope failed", "error", None, TRUE, TRUE)
      [] statusEnum = "cancelled" ->
            WorkflowStatus("Cancelled", "error", None, TRUE, FALSE)
      [] statusEnum = "expired" ->
            WorkflowStatus("Expired", "error", None, TRUE, FALSE)
      [] OTHER ->
            WorkflowStatus(statusEnum, "pending", None, FALSE, FALSE)

\* an execute deriver that hands its session to the scope rules
deriveExecuteStatusAsScope(statusEnum, structuredOutput, pullRequestUrl) ==
    deriveScopeStatus(statusEnum, structuredOutput)

\* an execute deriver that follows the scope rules except that a paused
\* session asks for no attention
deriveExecuteStatusPausedQuiet(statusEnum, structuredOutput, pullRequestUrl) ==
    IF statusEnum = "paused"
    THEN WorkflowStatus("Paused", "warning", None, FALSE, FALSE)
    ELSE deriveScopeStatus(statusEnum, structuredOutput)

deriveExecuteStatus(statusEnum, structuredOutput, pullRequestUrl) ==
    CASE statusEnum \in {"queued", "pending"} ->
            WorkflowStatus("Queued", "pending", None, FALSE, FALSE)
      [] statusEnum = "running" ->
            WorkflowStatus("Executing...", "active", None, FALSE, FALSE)
      [] statusEnum = "blocked" ->
            LET blockingReason == getBlockingReason(structuredOutput) IN
            WorkflowStatus("Needs input", "warning",
                           \* blockingReason || 'Waiting for user input'
                           IF blockingReason # None /\ The(blockingReason) # ""
                           THEN blockingReason
                           ELSE Some("Waiting for user input"),
                           FALSE, TRUE)
      [] statusEnum = "paused" ->
            WorkflowStatus("Paused", "warning", None, FALSE, TRUE)
      [] statusEnum = "finished" ->
            IF pullRequestUrl # None /\ The(pullRequestUrl) # ""
            THEN WorkflowStatus("PR ready", "success", Some("Pull request created"),
                                TRUE, FALSE)
            ELSE WorkflowStatus("Completed", "success", None, TRUE, FALSE)
      [] statusEnum = "failed" ->
            WorkflowStatus("Execute failed", "error", None, TRUE, TRUE)
      [] statusEnum = "cancelled" ->
            WorkflowStatus("Cancelled", "error", None, TRUE, FALSE)
      [] statusEnum = "expired" ->
            WorkflowStatus("Expired", "error", None, TRUE, FALSE)
      [] OTHER ->
            WorkflowStatus(statusEnum, "pending", None, FALSE, FALSE)

\* the dispatch with the test of the kind inverted
deriveWorkflowStatusSwapped(type, statusEnum, structuredOutput, pullRequestUrl) ==
    IF statusEnum = None \/ The(statusEnum) = ""
    THEN WorkflowStatus("Not started", "pending", None, TRUE, FALSE)
    ELSE IF type = "execute"
    THEN deriveScopeStatus(The(statusEnum), structuredOutput)
    ELSE deriveExecuteStatus(The(statusEnum), structuredOutput, pullRequestUrl)

\* a missing status taken for a session still to be polled
deriveWorkflowStatusNotStartedPolls(type, statusEnum, structuredOutput, pullRequestUrl) ==
    IF statusEnum = None \/ The(statusEnum) = ""
    THEN WorkflowStatus("Not started", "pending", None, FALSE, FALSE)
    ELSE IF type = "scope"
    THEN deriveScopeStatus(The(statusEnum), structuredOutput)
    ELSE deriveExecuteStatus(The(statusEnum), structuredOutput, pullRequestUrl)

\* the dispatch that forgets to pass the pull-request URL on
deriveWorkflowStatusDropsPr(type, statusEnum, structuredOutput, pullRequestUrl) ==
    IF statusEnum = None \/ The(statusEnum) = ""
    THEN WorkflowStatus("Not started", "pending", None, TRUE, FALSE)
    ELSE IF type = "scope"
    THEN deriveScopeStatus(The(statusEnum), structuredOutput)
    ELSE deriveExecuteStatus(The(statusEnum), structuredOutput, None)

\* statusEnum and pullRequestUrl are optional strings, structuredOutput an
\* optional output record
deriveWorkflowStatus(type, statusEnum, structuredOutput, pullRequestUrl) ==
    IF statusEnum = None \/ The(statusEnum) = ""
    THEN WorkflowStatus("Not started", "pending", None, TRUE, FALSE)
    ELSE IF type = "scope"
    THEN deriveScopeStatus(The(statusEnum), structuredOutput)
    ELSE deriveExecuteStatus(The(statusEnum), structuredOutput, pullRequestUrl)

(***************************************************************************)
(* The Session Platform as seen through GET /api/sessions/:id.             *)
(***************************************************************************)
SessionKinds == {"scope", "execute"}

Session(status, output, pr) ==
    [status_enum |-> status, structured_output |-> output, pull_request_url |-> pr]

\* a structured output that reports progress and no blocking reason
PlainOutput ==
    [blocking_issue |-> "", needs_input |-> Absent,
     current_task |-> "task", needs_human_input |-> FALSE]

\* the session snapshots the platform may return
Sessions ==
    { Session("running", None, None), Session("blocked", None, None),
      Session("blocked", Some(PlainOutput), None),
      Session("finished", Some(PlainOutput), None) }

HttpStatuses == {200, 400, 401, 404, 429, 500, 503}

\* response.ok
IsOk(status) == status >= 200 /\ status <= 299

(***************************************************************************)
(* What one fetch() may end with: no response at all (fetch rejects with a *)
(* TypeError whose message names "fetch" in some browsers only), or a      *)
(* response with a status and a body that is JSON or not.                  *)
(***************************************************************************)
Responses ==
    { [net |-> TRUE, fetchInMessage |-> m, status |-> 0, jsonOk |-> FALSE, body |-> None] :
        m \in BOOLEAN }
    \cup
    { [net |-> FALSE, fetchInMessage |-> FALSE, status |-> st, jsonOk |-> j, body |-> None] :
        st \in HttpStatuses \ {200}, j \in BOOLEAN }
    \cup
    { [net |-> FALSE, fetchInMessage |-> FALSE, status |-> 200, jsonOk |-> TRUE, body |-> Some(s)] :
        s \in Sessions }
    \cup
    { [net |-> FALSE, fetchInMessage |-> FALSE, status |-> 200, jsonOk |-> FALSE, body |-> None] }

\* the error classes of the specification (section 4.3), by the response alone
IsTransientResponse(r) == r.net \/ r.status \in {429, 502, 503, 504}

IsPermanentResponse(r) == ~r.net /\ ~IsOk(r.status) /\ r.status \notin {429, 502, 503, 504}

IsSuccessResponse(r) == ~r.net /\ IsOk(r.status) /\ r.jsonOk

(***************************************************************************)
(* State.                                                                  *)
(*   hook   which implementation this behaviour runs ("A" or "B")          *)
(*   A, B   the hook instance: React state, refs, live timers and the      *)
(*          fetches in flight (field names are the source's)               *)
(* and what an observer of the run has seen:                               *)
(*   event    the last step: its operation, the response delivered by it,  *)
(*            the length of the run of transient failures before it when   *)
(*            the run started at mount and nothing else happened, and the  *)
(*            mode the hook was in before the step; for a step that        *)
(*            delivers a response also what it found (pre)                 *)
(*   retried  retry() has been called                                      *)
(*   streak   consecutive transient responses delivered to the mounted,    *)
(*            never retried hook since the last other response             *)
(*   pristine every response so far was a transient failure, and neither   *)
(*            retry() nor an unmount has happened                          *)
(* and, for the pure functions and the render of StatusStrip:              *)
(*   call     one call: the function, its arguments and, once it has       *)
(*            returned, its result                                         *)
(* and, for the interval poller of StatusStrip:                            *)
(*   P        one useSessionPoller instance                                *)
(* and, for the issue rows of the dashboard:                               *)
(*   R        the browser's localStorage, one IssueRow per issue, the      *)
(*            creation requests under way and what the platform created    *)
(* and, for two hook instances on one page:                                *)
(*   G        which implementation both run, the state each keeps, and     *)
(*            the instance the last step was an event of (0: none)         *)
(* and, for the API routes of the server:                                  *)
(*   X        one request: its inputs, the server's environment, how far   *)
(*            the handler has come and the response once it is sent        *)
(***************************************************************************)
VARIABLES hook, A, B, event, retried, streak, pristine, call, P, R, G, X

vars == <<hook, A, B, event, retried, streak, pristine, call, P, R, G, X>>

\* queued state updates: applied on the next render of a mounted component,
\* dropped once it is unmounted
setState(h, updates) ==
    IF h.phase = "mounted" \/ h.phase = "idle"
    THEN [f \in DOMAIN h |-> IF f \in DOMAIN updates THEN updates[f] ELSE h[f]]
    ELSE h

\* what a step that delivers a response found: the status of the data held
\* ("" for none) and whether a fetch timer was pending
Pre(status, timer) == [status |-> status, timer |-> timer]

Event(op, resp, before, mode) ==
    [op |-> op, resp |-> resp, before |-> before, mode |-> mode,
     pre |-> Pre("", FALSE)]

(***************************************************************************)
(* Hook A: usePollingWithBackoff(fetchFn, shouldStopPolling, config).      *)
(*   timerRef      ms left of the live fetch timer, if any                 *)
(*   countdownRef  ms to the next tick of the live countdown, if any       *)
(*   remaining     the countdown's own counter (a closure variable)        *)
(*   timers        timeouts set by the instance and neither fired nor      *)
(*                 cleared                                                 *)
(*   tickers       intervals set by the instance and not cleared           *)
(*   inflight      performFetch calls suspended in await fetchFn()         *)
(***************************************************************************)
InitA ==
    [phase |-> "idle",
     data |-> None, pollingState |-> "normal", isPolling |-> TRUE,
     failureCount |-> 0, retryInSeconds |-> None,
     failureCountRef |-> 0, isPollingRef |-> TRUE,
     timerRef |-> None, countdownRef |-> None, remaining |-> 0,
     timers |-> 0, tickers |-> 0,
     inflight |-> 0]

\* the effects that keep the refs in sync, run after each render
renderA(h) ==
    IF h.phase = "mounted"
    THEN [h EXCEPT !.failureCountRef = h.failureCount, !.isPollingRef = h.isPolling]
    ELSE h

\* if (timerRef.current) clearTimeout(...); if (countdownRef.current) clearInterval(...)
clearTimersA(h) ==
    [h EXCEPT !.timerRef = None, !.countdownRef = None, !.remaining = 0,
              !.timers = IF h.timerRef # None THEN @ - 1 ELSE @,
              !.tickers = IF h.countdownRef # None THEN @ - 1 ELSE @]

\* a scheduleNextPoll that sets its timers without clearing the pending ones
scheduleNextPollKeepsOldA(h, interval) ==
    LET h2 == setState(h, [retryInSeconds |-> Some(CeilSeconds(interval))])
    IN  [h2 EXCEPT !.remaining = CeilSeconds(interval),
                   !.countdownRef = Some(TickMs), !.tickers = @ + 1,
                   !.timerRef = Some(interval), !.timers = @ + 1]

scheduleNextPollA(h, interval) ==
    LET h1 == clearTimersA(h)
        h2 == setState(h1, [retryInSeconds |-> Some(CeilSeconds(interval))])
    IN  [h2 EXCEPT !.remaining = CeilSeconds(interval),
                   !.countdownRef = Some(TickMs), !.tickers = @ + 1,
                   !.timerRef = Some(interval), !.timers = @ + 1]

\* the setInterval callback of scheduleNextPoll
countdownTickA(h) ==
    LET remaining == h.remaining - 1 IN
    IF remaining > 0
    THEN [setState(h, [retryInSeconds |-> Some(remaining)])
            EXCEPT !.remaining = remaining, !.countdownRef = Some(TickMs)]
    ELSE [setState(h, [retryInSeconds |-> None])
            EXCEPT !.remaining = 0, !.countdownRef = None, !.tickers = @ - 1]

\* performFetch up to its await: the request is issued
performFetchA(h) == [h EXCEPT !.inflight = @ + 1]

\* the setTimeout callback of scheduleNextPoll
timerFireA(h) ==
    LET h1 == [h EXCEPT !.timerRef = None, !.timers = @ - 1] IN
    IF h1.isPollingRef THEN performFetchA(h1) ELSE h1

\* SessionStatus.fetchSession: what the awaited call gives for a response
ThrownError(name, fetchInMessage, status) ==
    [isResponse |-> FALSE, isError |-> TRUE, name |-> name,
     fetchInMessage |-> fetchInMessage, status |-> status]

fetchSession(r) ==
    IF r.net
    THEN [ok |-> FALSE, data |-> None,
          err |-> ThrownError("TypeError", r.fetchInMessage, None)]
    ELSE IF ~r.jsonOk
    THEN [ok |-> FALSE, data |-> None,
          err |-> ThrownError("SyntaxError", FALSE, None)]
    ELSE IF ~IsOk(r.status)
    THEN [ok |-> FALSE, data |-> None,
          err |-> ThrownError("FetchError", FALSE, Some(r.status))]
    ELSE [ok |-> TRUE, data |-> r.body, err |-> ThrownError("", FALSE, None)]

\* a stop test that knows the failure statuses only
shouldStopPollingOnFailuresOnly(data) ==
    IF data = None THEN FALSE
    ELSE The(data).status_enum \in {"failed", "cancelled", "expired"}

shouldStopPolling(data) ==
    IF data = None THEN FALSE ELSE The(data).status_enum \in TERMINAL_STATUSES

\* hook A's classifier; status is an optional number
isTransientErrorA(status, isNetworkError) ==
    IF isNetworkError THEN TRUE
    ELSE IF status = None THEN FALSE
    ELSE The(status) \in {429, 502, 503, 504}

\* the catch block's reading of the thrown value: <<status, isNetworkError>>
errorTypeA(err) ==
    IF err.isResponse THEN <<err.status, FALSE>>
    ELSE IF err.isError
    THEN IF err.name = "TypeError" /\ err.fetchInMessage THEN <<None, TRUE>>
         ELSE IF err.status # None THEN <<err.status, FALSE>>
         ELSE <<None, FALSE>>
    ELSE <<None, FALSE>>

\* the threshold test with > for >=: one more failure is let through
thresholdReachedLate(newFailureCount, threshold) == newFailureCount > threshold

\* newFailureCount >= failureThreshold
thresholdReached(newFailureCount, threshold) == newFailureCount >= threshold

performFetchSuccessA(h, data) ==
    LET h1 == setState(h, [data |-> data, failureCount |-> 0,
                           pollingState |-> "normal", retryInSeconds |-> None])
    IN  IF shouldStopPolling(data)
        THEN clearTimersA(setState(h1, [isPolling |-> FALSE]))
        ELSE scheduleNextPollA(h1, baseInterval)

performFetchCatchA(h, err) ==
    LET status == errorTypeA(err)[1]
        isNetworkError == errorTypeA(err)[2]
        newFailureCount == h.failureCountRef + 1
        h1 == setState(h, [failureCount |-> newFailureCount])
    IN  IF isTransientErrorA(status, isNetworkError)
        THEN IF thresholdReached(newFailureCount, failureThreshold)
             THEN clearTimersA(setState(h1, [pollingState |-> "failed",
                                             retryInSeconds |-> None]))
             ELSE scheduleNextPollA(setState(h1, [pollingState |-> "degraded"]),
                                    calculateBackoff(baseInterval, maxBackoff, newFailureCount))
        ELSE clearTimersA(setState(h1, [pollingState |-> "failed",
                                        retryInSeconds |-> None]))

\* performFetch from the end of its await
performFetchDoneA(h, r) ==
    LET h0 == [h EXCEPT !.inflight = @ - 1]
        result == fetchSession(r)
    IN  IF result.ok THEN performFetchSuccessA(h0, result.data)
        ELSE performFetchCatchA(h0, result.err)

\* a retry that resets the whole exposed state, the data included
retryResetsDataA(h) ==
    performFetchA(setState(h, [isPolling |-> TRUE, pollingState |-> "normal",
                               failureCount |-> 0, retryInSeconds |-> None,
                               data |-> None]))

retryA(h) ==
    performFetchA(setState(h, [isPolling |-> TRUE, pollingState |-> "normal",
                               failureCount |-> 0, retryInSeconds |-> None]))

\* an unmount cleanup that forgets the countdown
unmountKeepsCountdownA(h) ==
    [h EXCEPT !.phase = "disposed", !.timerRef = None,
              !.timers = IF h.timerRef # None THEN @ - 1 ELSE @,
              !.data = None, !.pollingState = "normal", !.isPolling = TRUE,
              !.failureCount = 0, !.retryInSeconds = None]

\* the cleanup of the unmount effect; React discards the component's state
\* (nothing reads it afterwards), the refs live on in the closures
unmountA(h) ==
    clearTimersA([h EXCEPT !.phase = "disposed",
                           !.data = InitA.data, !.pollingState = InitA.pollingState,
                           !.isPolling = InitA.isPolling,
                           !.failureCount = InitA.failureCount,
                           !.retryInSeconds = InitA.retryInSeconds])

(***************************************************************************)
(* Hook B: usePollingWithBackoff({fetchFn, onSuccess, ...}), with the      *)
(* caller's session state (data, set by onSuccess).                        *)
(*   timeoutRef    ms left of the live fetch timer, if any                 *)
(*   countdownRef  ms to the next tick of the live countdown, if any       *)
(*   endTime       ms from now to the countdown's endTime (never read      *)
(*                 below 0)                                                *)
(*   timers        timeouts set by the instance and neither fired nor      *)
(*                 cleared                                                 *)
(*   tickers       intervals set by the instance and not cleared           *)
(*   pollRef       what the poll held by pollRef.current closed over; a    *)
(*                 poll that closed over isPolling = FALSE does nothing,   *)
(*                 like the initial () => {}                               *)
(*   inflight      the polls suspended in await fetchFn(), in the order    *)
(*                 they were issued: the failure count each closed over    *)
(***************************************************************************)
PollingStateB(isReconnecting, isFailed, failureCount, nextRetryIn) ==
    [isReconnecting |-> isReconnecting, isFailed |-> isFailed,
     failureCount |-> failureCount, nextRetryIn |-> nextRetryIn]

Closure(failureCount, isPolling) ==
    [failureCount |-> failureCount, isPolling |-> isPolling]

InitB ==
    [phase |-> "idle",
     data |-> None,
     pollingState |-> PollingStateB(FALSE, FALSE, 0, None),
     isPolling |-> TRUE,
     isMountedRef |-> TRUE,
     timeoutRef |-> None, countdownRef |-> None, endTime |-> 0,
     timers |-> 0, tickers |-> 0,
     pollRef |-> Closure(0, FALSE),
     inflight |-> << >>]

\* a render whose effects leave pollRef.current as it was
renderKeepsPollRefB(h) == h

\* the effect that keeps pollRef.current the poll of the latest render
renderB(h) ==
    IF h.phase = "mounted"
    THEN [h EXCEPT !.pollRef = Closure(h.pollingState.failureCount, h.isPolling)]
    ELSE h

clearTimersB(h) ==
    [h EXCEPT !.timeoutRef = None, !.countdownRef = None, !.endTime = 0,
              !.timers = IF h.timeoutRef # None THEN @ - 1 ELSE @,
              !.tickers = IF h.countdownRef # None THEN @ - 1 ELSE @]

scheduleNextPollB(h, delay, isBackoff) ==
    LET h1 == clearTimersB(h) IN
    IF isBackoff
    THEN [setState(h1, [pollingState |->
                          [h1.pollingState EXCEPT !.nextRetryIn = Some(CeilSeconds(delay))]])
            EXCEPT !.countdownRef = Some(TickMs), !.endTime = delay,
                   !.tickers = @ + 1,
                   !.timeoutRef = Some(delay), !.timers = @ + 1]
    ELSE [h1 EXCEPT !.timeoutRef = Some(delay), !.timers = @ + 1]

\* the setInterval callback of scheduleNextPoll
countdownTickB(h) ==
    IF ~h.isMountedRef
    THEN [h EXCEPT !.countdownRef = Some(TickMs)]
    ELSE LET remaining == Max(0, CeilSeconds(h.endTime))
             h1 == setState(h, [pollingState |->
                                  [h.pollingState EXCEPT !.nextRetryIn = Some(remaining)]])
         IN  IF remaining <= 0
             THEN [h1 EXCEPT !.countdownRef = None, !.endTime = 0, !.tickers = @ - 1]
             ELSE [h1 EXCEPT !.countdownRef = Some(TickMs)]

\* poll up to its await, as the closure c: the guard, then the request
pollB(h, c) ==
    IF ~h.isMountedRef \/ ~c.isPolling THEN h
    ELSE [h EXCEPT !.inflight = Append(@, c.failureCount)]

\* the setTimeout callback of scheduleNextPoll
timerFireB(h) ==
    LET h1 == [h EXCEPT !.timeoutRef = None, !.timers = @ - 1] IN
    IF h1.isMountedRef THEN pollB(h1, h1.pollRef) ELSE h1

isTransientErrorB(status) == status \in TRANSIENT_STATUS_CODES

isPermanentError(status) == status \in PERMANENT_STATUS_CODES

isTerminal(data) == The(data).status_enum \in TERMINAL_STATUSES

\* the transient branch and the catch block: count, then stop or back off
pollFailureB(h, closureCount) ==
    LET newFailureCount == closureCount + 1 IN
    IF newFailureCount >= maxFailures
    THEN setState(h, [pollingState |-> PollingStateB(FALSE, TRUE, newFailureCount, None),
                      isPolling |-> FALSE])
    ELSE LET backoffDelay == calculateBackoffDelay(newFailureCount, DEFAULT_BACKOFF) IN
         scheduleNextPollB(
            setState(h, [pollingState |->
                PollingStateB(TRUE, FALSE, newFailureCount, Some(CeilSeconds(backoffDelay)))]),
            backoffDelay, TRUE)

pollPermanentB(h) ==
    setState(h, [pollingState |-> PollingStateB(FALSE, TRUE, maxFailures, None),
                 isPolling |-> FALSE])

pollSuccessB(h, data) ==
    LET h1 == setState(h, [pollingState |-> PollingStateB(FALSE, FALSE, 0, None),
                           data |-> data])
    IN  IF isTerminal(data)
        THEN setState(h1, [isPolling |-> FALSE])
        ELSE scheduleNextPollB(h1, normalInterval, FALSE)

\* poll number i in flight, from the end of its await
pollDoneB(h, i, r) ==
    LET closureCount == h.inflight[i]
        h0 == [h EXCEPT !.inflight = RemoveAt(@, i)]
    IN
    IF r.net THEN pollFailureB(h0, closureCount)
    ELSE IF ~IsOk(r.status)
    THEN IF isPermanentError(r.status) THEN pollPermanentB(h0)
         ELSE IF isTransientErrorB(r.status) THEN pollFailureB(h0, closureCount)
         ELSE pollFailureB(h0, closureCount)
    ELSE IF ~r.jsonOk THEN pollFailureB(h0, closureCount)
    ELSE pollSuccessB(h0, r.body)

retryB(h) ==
    pollB(setState(h, [pollingState |-> PollingStateB(FALSE, FALSE, 0, None),
                       isPolling |-> TRUE]),
          h.pollRef)

\* the cleanup of the mount effect; React discards the component's state
\* (nothing reads it afterwards), the refs live on in the closures
unmountB(h) ==
    clearTimersB([h EXCEPT !.phase = "disposed", !.isMountedRef = FALSE,
                           !.data = InitB.data, !.pollingState = InitB.pollingState,
                           !.isPolling = InitB.isPolling])

(***************************************************************************)
(* Views shared by both hooks.                                             *)
(***************************************************************************)
H == IF hook = "A" THEN A ELSE B

Mounted == H.phase = "mounted"

Disposed == H.phase = "disposed"

InFlight == IF hook = "A" THEN A.inflight ELSE Len(B.inflight)

FetchTimer == IF hook = "A" THEN A.timerRef ELSE B.timeoutRef

Ticker == IF hook = "A" THEN A.countdownRef ELSE B.countdownRef

TimerDue == FetchTimer = Some(0) \/ Ticker = Some(0)

\* fetches in flight plus the fetch the pending timer stands for
Outstanding == InFlight + (IF FetchTimer # None THEN 1 ELSE 0)

Exhausted == IF hook = "A" THEN A.pollingState = "failed" ELSE B.pollingState.isFailed

BackingOff ==
    IF hook = "A" THEN A.pollingState = "degraded" ELSE B.pollingState.isReconnecting

Normal == ~Exhausted /\ ~BackingOff

Mode == IF Exhausted THEN "exhausted" ELSE IF BackingOff THEN "backoff" ELSE "normal"

FailureCount == IF hook = "A" THEN A.failureCount ELSE B.pollingState.failureCount

Data == H.data

\* live timeouts and live intervals of the instance
Timers == H.timers

Tickers == H.tickers

\* the exposed seconds-to-retry
SecondsToRetry == IF hook = "A" THEN A.retryInSeconds ELSE B.pollingState.nextRetryIn

NoResp == None

\* no pure function is being called
NoCall == [fn |-> "none", args |-> << >>, ret |-> None]

\* one second passes: every live timer is one second nearer
elapse(t) == IF t = None THEN None ELSE Some(The(t) - TickMs)

(***************************************************************************)
(* What the observer records when a response is delivered.                 *)
(***************************************************************************)
Live == Mounted /\ ~retried

Observe(r) ==
    /\ event' = [Event("done", Some(r), IF pristine THEN Some(streak) ELSE None, Mode)
                    EXCEPT !.pre = Pre(IF Data = None THEN "" ELSE The(Data).status_enum,
                                       FetchTimer # None)]
    /\ streak' = IF Live /\ IsTransientResponse(r) THEN streak + 1 ELSE 0
    /\ pristine' = (pristine /\ Live /\ IsTransientResponse(r))
    /\ UNCHANGED <<retried, call, P, R, G, X>>

Step(op) ==
    /\ event' = Event(op, NoResp, None, Mode)
    /\ UNCHANGED <<retried, streak, pristine, call, P, R, G, X>>

(***************************************************************************)
(* Hook A's steps.                                                         *)
(***************************************************************************)
\* the mount effects: the initial performFetch()
MountA ==
    /\ hook = "A" /\ A.phase = "idle"
    /\ A' = renderA(performFetchA([A EXCEPT !.phase = "mounted"]))
    /\ Step("mount")
    /\ UNCHANGED <<hook, B>>

AdvanceTimeA ==
    /\ hook = "A" /\ ~TimerDue
    /\ A.timerRef # None \/ A.countdownRef # None
    /\ A' = [A EXCEPT !.timerRef = elapse(@), !.countdownRef = elapse(@)]
    /\ Step("time")
    /\ UNCHANGED <<hook, B>>

CountdownTickA ==
    /\ hook = "A" /\ A.countdownRef = Some(0)
    /\ A' = renderA(countdownTickA(A))
    /\ Step("tick")
    /\ UNCHANGED <<hook, B>>

TimerFireA ==
    /\ hook = "A" /\ A.timerRef = Some(0)
    /\ A' = renderA(timerFireA(A))
    /\ Step("timer")
    /\ UNCHANGED <<hook, B>>

FetchDoneA ==
    /\ hook = "A" /\ A.inflight > 0 /\ ~TimerDue
    /\ \E r \in Responses :
        /\ A' = renderA(performFetchDoneA(A, r))
        /\ Observe(r)
    /\ UNCHANGED <<hook, B>>

RetryA ==
    /\ hook = "A" /\ A.phase = "mounted" /\ ~TimerDue
    /\ Outstanding < MaxInFlight
    /\ A' = renderA(retryA(A))
    /\ event' = Event("retry", NoResp, None, Mode)
    /\ retried' = TRUE /\ streak' = 0 /\ pristine' = FALSE
    /\ UNCHANGED <<hook, B, call, P, R, G, X>>

UnmountA ==
    /\ hook = "A" /\ A.phase = "mounted" /\ ~TimerDue
    /\ A' = unmountA(A)
    /\ event' = Event("unmount", NoResp, None, Mode)
    /\ streak' = 0 /\ pristine' = FALSE
    /\ UNCHANGED <<hook, B, retried, call, P, R, G, X>>

(***************************************************************************)
(* Hook B's steps.                                                         *)
(***************************************************************************)
\* the mount effects: pollRef.current = poll, isMountedRef.current = true,
\* pollRef.current()
MountB ==
    /\ hook = "B" /\ B.phase = "idle"
    /\ LET h == renderB([B EXCEPT !.phase = "mounted", !.isMountedRef = TRUE])
       IN  B' = renderB(pollB(h, h.pollRef))
    /\ Step("mount")
    /\ UNCHANGED <<hook, A>>

AdvanceTimeB ==
    /\ hook = "B" /\ ~TimerDue
    /\ B.timeoutRef # None \/ B.countdownRef # None
    /\ B' = [B EXCEPT !.timeoutRef = elapse(@), !.countdownRef = elapse(@),
                      !.endTime = Max(0, @ - TickMs)]
    /\ Step("time")
    /\ UNCHANGED <<hook, A>>

CountdownTickB ==
    /\ hook = "B" /\ B.countdownRef = Some(0)
    /\ B' = renderB(countdownTickB(B))
    /\ Step("tick")
    /\ UNCHANGED <<hook, A>>

TimerFireB ==
    /\ hook = "B" /\ B.timeoutRef = Some(0)
    /\ B' = renderB(timerFireB(B))
    /\ Step("timer")
    /\ UNCHANGED <<hook, A>>

FetchDoneB ==
    /\ hook = "B" /\ ~TimerDue
    /\ \E i \in 1..Len(B.inflight), r \in Responses :
        /\ B' = renderB(pollDoneB(B, i, r))
        /\ Observe(r)
    /\ UNCHANGED <<hook, A>>

RetryB ==
    /\ hook = "B" /\ B.phase = "mounted" /\ ~TimerDue
    /\ Outstanding < MaxInFlight
    /\ B' = renderB(retryB(B))
    /\ event' = Event("retry", NoResp, None, Mode)
    /\ retried' = TRUE /\ streak' = 0 /\ pristine' = FALSE
    /\ UNCHANGED <<hook, A, call, P, R, G, X>>

UnmountB ==
    /\ hook = "B" /\ B.phase = "mounted" /\ ~TimerDue
    /\ B' = unmountB(B)
    /\ event' = Event("unmount", NoResp, None, Mode)
    /\ streak' = 0 /\ pristine' = FALSE
    /\ UNCHANGED <<hook, A, retried, call, P, R, G, X>>

(***************************************************************************)
(* StatusStrip's useSessionPoller(sessionId): a fetch at every run of its  *)
(* effect and one every POLL_INTERVAL while isPolling.                     *)
(*   interval  ms left to the next call of the live setInterval, if any    *)
(*   inflight  fetchSession calls suspended in an await                    *)
(***************************************************************************)
POLL_INTERVAL == 15000

InitP ==
    [phase |-> "idle", data |-> None, isPolling |-> TRUE,
     interval |-> None, inflight |-> 0]

\* the effect of [fetchSession, isPolling]: fetchSession(), and a
\* setInterval if isPolling
sessionPollerEffect(p) ==
    [p EXCEPT !.inflight = @ + 1,
              !.interval = IF p.isPolling THEN Some(POLL_INTERVAL) ELSE None]

\* the effect's cleanup: clearInterval, if an interval was set
sessionPollerCleanup(p) == [p EXCEPT !.interval = None]

\* the setInterval callback: fetchSession(), and the interval runs on
sessionPollerTick(p) ==
    [p EXCEPT !.inflight = @ + 1, !.interval = Some(POLL_INTERVAL)]

\* fetchSession from its first await on, then the render and the effects
\* its state updates bring
sessionPollerFetchDone(p, r) ==
    LET done == [p EXCEPT !.inflight = @ - 1] IN
    IF r.net \/ ~IsOk(r.status) \/ ~r.jsonOk THEN done
    ELSE IF p.phase # "mounted" THEN done
    ELSE LET next == [done EXCEPT
                        !.data = r.body,
                        !.isPolling = IF The(r.body).status_enum \in TERMINAL_STATUSES
                                      THEN FALSE ELSE @]
         IN IF next.isPolling # p.isPolling
            THEN sessionPollerEffect(sessionPollerCleanup(next))
            ELSE next

HooksIdle ==
    /\ hook = "none"
    /\ A = InitA
    /\ B = InitB
    /\ retried = FALSE
    /\ streak = 0
    /\ pristine = TRUE

PollerStep(op, resp) ==
    /\ event' = Event(op, resp, None, "normal")
    /\ UNCHANGED <<hook, A, B, retried, streak, pristine, call, R, G, X>>

MountP ==
    /\ P.phase = "idle"
    /\ P' = sessionPollerEffect([P EXCEPT !.phase = "mounted"])
    /\ PollerStep("mount", NoResp)

AdvanceTimeP ==
    /\ P.interval # None /\ The(P.interval) > 0
    /\ The(P.interval) > TickMs \/ P.inflight < MaxInFlight
    /\ P' = [P EXCEPT !.interval = elapse(@)]
    /\ PollerStep("time", NoResp)

IntervalFireP ==
    /\ P.interval = Some(0)
    /\ P' = sessionPollerTick(P)
    /\ PollerStep("timer", NoResp)

FetchDoneP ==
    /\ P.inflight > 0 /\ P.interval # Some(0)
    /\ \E r \in Responses :
        /\ P' = sessionPollerFetchDone(P, r)
        /\ PollerStep("done", Some(r))

UnmountP ==
    /\ P.phase = "mounted" /\ P.interval # Some(0)
    /\ P' = sessionPollerCleanup([P EXCEPT !.phase = "disposed"])
    /\ PollerStep("unmount", NoResp)

(***************************************************************************)
(* IssueRow: the Scope and Execute buttons of one issue, and the session   *)
(* ids it keeps in localStorage.                                           *)
(*   localStorage  the browser's store, by key                             *)
(*   rows          per issue: the component's state                        *)
(*   requests      POSTs sent and not yet answered to the page: the row    *)
(*                 that sent it, whether that component is gone (orphan),  *)
(*                 and the session the platform created for it, if any     *)
(*   created       sessions the platform has created                       *)
(*   latest        the last session created, per issue and kind            *)
(*   racy          per issue: the row went away with a request under way   *)
(*   shown         the issue whose row the last step mounted, 0 if none    *)
(***************************************************************************)
\* the issues on the dashboard
Issues == {1, 2}

\* most sessions the platform creates
MaxCreated == 3

\* most creation requests under way at a time
MaxUnderway == 1

\* the session id of the k-th session the platform creates
SessionId(k) == "session-" \o ToString(k)

\* a key that leaves the issue number out
getStorageKeySharedByIssues(issueNumber, type) == "devin-session-" \o type

getStorageKey(issueNumber, type) ==
    "devin-session-" \o ToString(issueNumber) \o "-" \o type

StorageKeys == { getStorageKey(n, k) : n \in Issues, k \in SessionKinds }

SessionInfo(sessionId, type) == [sessionId |-> sessionId, type |-> type]

InitRow ==
    [phase |-> "idle", sessions |-> << >>, isExpanded |-> FALSE,
     isLoading |-> None, error |-> None]

Request(issue, type, scopeSessionId) ==
    [issue |-> issue, type |-> type, orphan |-> FALSE,
     scopeSessionId |-> scopeSessionId, session_id |-> None]

InitR ==
    [localStorage |-> [k \in StorageKeys |-> None],
     rows |-> [n \in Issues |-> InitRow],
     requests |-> {},
     created |-> 0,
     latest |-> [n \in Issues |-> [k \in SessionKinds |-> None]],
     racy |-> [n \in Issues |-> FALSE],
     shown |-> 0]

\* localStorage.getItem(key) as the load effect tests it: if (id)
getItem(storage, key) ==
    IF storage[key] # None /\ The(storage[key]) # "" THEN storage[key] ELSE None

\* the effect that loads the persisted sessions on mount
loadPersistedSessions(row, storage, issueNumber) ==
    LET scopeId == getItem(storage, getStorageKey(issueNumber, "scope"))
        executeId == getItem(storage, getStorageKey(issueNumber, "execute"))
        loadedSessions ==
            (IF scopeId # None THEN <<SessionInfo(The(scopeId), "scope")>> ELSE << >>)
            \o (IF executeId # None THEN <<SessionInfo(The(executeId), "execute")>>
                ELSE << >>)
    IN IF Len(loadedSessions) > 0
       THEN [row EXCEPT !.sessions = loadedSessions, !.isExpanded = TRUE]
       ELSE row

\* setSessions(prev => [...prev.filter(s => s.type !== type), {sessionId, type}])
\* an update that appends without filtering out the entry of the same kind
replaceSessionAppends(prev, sessionId, type) ==
    prev \o <<SessionInfo(sessionId, type)>>

replaceSession(prev, sessionId, type) ==
    SelectSeq(prev, LAMBDA x : x.type # type) \o <<SessionInfo(sessionId, type)>>

hasScopeSession(row) == \E i \in DOMAIN row.sessions : row.sessions[i].type = "scope"

\* sessions.find(s => s.type === 'scope')
findScopeSession(row) ==
    LET i == CHOOSE j \in DOMAIN row.sessions :
                /\ row.sessions[j].type = "scope"
                /\ \A l \in DOMAIN row.sessions :
                        row.sessions[l].type = "scope" => j <= l
    IN row.sessions[i]

\* handleScope and handleExecute up to their await fetch(...)
handleStart(row, type) == [row EXCEPT !.isLoading = Some(type), !.error = None]

\* after the awaits, with a response that is ok: the state updates of the
\* try block and of finally (isExpanded is set by handleScope only)
handleCreated(row, type, sessionId) ==
    [row EXCEPT !.sessions = replaceSession(@, sessionId, type),
                !.isExpanded = IF type = "scope" THEN TRUE ELSE @,
                !.isLoading = None]

\* a failure path without the finally block
handleFailedWithoutFinally(row, type) ==
    [row EXCEPT !.error = Some(IF type = "scope" THEN "Failed to create scope session"
                               ELSE "Failed to create execute session")]

\* after the awaits, with a response that is not ok or an error thrown:
\* catch and finally
handleFailed(row, type) ==
    [row EXCEPT !.error = Some(IF type = "scope" THEN "Failed to create scope session"
                               ELSE "Failed to create execute session"),
                !.isLoading = None]

\* requests of an issue that are under way
Underway(n) == { q \in R.requests : q.issue = n }

RowStep(next) ==
    /\ R' = next
    /\ UNCHANGED <<hook, A, B, event, retried, streak, pristine, call, P, G, X>>

\* the page shows the row: fresh component state, then the load effect
MountRow(n) ==
    /\ R.rows[n].phase # "mounted"
    /\ RowStep([R EXCEPT
            !.rows[n] = loadPersistedSessions([InitRow EXCEPT !.phase = "mounted"],
                                              R.localStorage, n),
            !.shown = n])

\* the page is reloaded or left; the handlers under way lose their component
UnmountRow(n) ==
    /\ R.rows[n].phase = "mounted"
    /\ RowStep([R EXCEPT
            !.rows[n].phase = "unmounted",
            !.requests = { IF q.issue = n THEN [q EXCEPT !.orphan = TRUE] ELSE q :
                            q \in @ },
            !.racy[n] = @ \/ Underway(n) # {},
            !.shown = 0])

\* a click on Scope / Re-scope (disabled while isLoading)
ClickScope(n) ==
    /\ R.rows[n].phase = "mounted" /\ R.rows[n].isLoading = None
    /\ Cardinality(R.requests) < MaxUnderway
    /\ RowStep([R EXCEPT
            !.rows[n] = handleStart(@, "scope"),
            !.requests = @ \cup {Request(n, "scope", None)},
            !.shown = 0])

\* a click on Execute / Re-execute (disabled while isLoading and without a
\* scope session)
ClickExecute(n) ==
    /\ R.rows[n].phase = "mounted" /\ R.rows[n].isLoading = None
    /\ Cardinality(R.requests) < MaxUnderway
    /\ hasScopeSession(R.rows[n])
    /\ RowStep([R EXCEPT
            !.rows[n] = handleStart(@, "execute"),
            !.requests = @ \cup {Request(n, "execute",
                                          Some(findScopeSession(R.rows[n]).sessionId))},
            !.shown = 0])

\* the platform creates the session a request asks for
PlatformCreates ==
    /\ R.created < MaxCreated
    /\ \E q \in R.requests :
        /\ q.session_id = None
        /\ LET id == SessionId(R.created + 1) IN
           RowStep([R EXCEPT
                !.requests = (@ \ {q}) \cup {[q EXCEPT !.session_id = Some(id)]},
                !.created = @ + 1,
                !.latest[q.issue][q.type] = Some(id),
                !.shown = 0])

\* the handler resumes with an ok response that carries the session
\* created; the state updates of a component that is gone are dropped, the
\* write to localStorage is not
HandlerResumesCreated ==
    \E q \in R.requests :
        /\ q.session_id # None
        /\ RowStep([R EXCEPT
                !.requests = @ \ {q},
                !.localStorage[getStorageKey(q.issue, q.type)] = q.session_id,
                !.rows[q.issue] = IF q.orphan THEN @
                                  ELSE handleCreated(@, q.type, The(q.session_id)),
                !.shown = 0])

\* the handler resumes with a response that is not ok, or with no usable
\* response: nothing was created
HandlerResumesFailed ==
    \E q \in R.requests :
        /\ q.session_id = None
        /\ RowStep([R EXCEPT
                !.requests = @ \ {q},
                !.rows[q.issue] = IF q.orphan THEN @ ELSE handleFailed(@, q.type),
                !.shown = 0])

(***************************************************************************)
(* Two usePollingWithBackoff instances on one page, polling different      *)
(* sessions. Each call of the hook has its own useState and useRef cells   *)
(* (README.md 373-384, 590-601); the instances share the clock only.       *)
(***************************************************************************)
Instances == {1, 2}

\* seconds of the page's life that are followed
MaxSeconds == 15

\* the cells a hook call's useState and useRef give it: its own
instanceCellsShared(i) == 1

instanceCells(i) == i

InitG(kind) ==
    [kind |-> kind,
     cells |-> [c \in Instances |-> IF kind = "A" THEN InitA ELSE InitB],
     seconds |-> 0,
     actor |-> 0]

\* the state instance i works on
Inst(i) == G.cells[instanceCells(i)]

\* what a fetch of an instance may end with
PairResponses ==
    { r \in Responses :
        \/ r.net /\ r.fetchInMessage
        \/ r.status \in {404, 503} /\ r.jsonOk
        \/ r.body \in {Some(Session("running", None, None)),
                       Some(Session("finished", Some(PlainOutput), None))} }

hookTimer(h) == IF G.kind = "A" THEN h.timerRef ELSE h.timeoutRef

hookInFlight(h) == IF G.kind = "A" THEN h.inflight ELSE Len(h.inflight)

hookDue(h) == hookTimer(h) = Some(0) \/ h.countdownRef = Some(0)

NoneDue == \A i \in Instances : ~hookDue(Inst(i))

\* what an instance exposes and holds pending: data, polling state, failure
\* count, seconds-to-retry, fetch timer and ticker
Exposed(h) ==
    [data |-> h.data, pollingState |-> h.pollingState,
     failureCount |-> IF G.kind = "A" THEN h.failureCount
                      ELSE h.pollingState.failureCount,
     secondsToRetry |-> IF G.kind = "A" THEN h.retryInSeconds
                        ELSE h.pollingState.nextRetryIn,
     timer |-> hookTimer(h), ticker |-> h.countdownRef]

hookMount(h) ==
    IF G.kind = "A" THEN renderA(performFetchA([h EXCEPT !.phase = "mounted"]))
    ELSE LET m == renderB([h EXCEPT !.phase = "mounted", !.isMountedRef = TRUE])
         IN renderB(pollB(m, m.pollRef))

hookElapse(h) ==
    IF G.kind = "A"
    THEN [h EXCEPT !.timerRef = elapse(@), !.countdownRef = elapse(@)]
    ELSE [h EXCEPT !.timeoutRef = elapse(@), !.countdownRef = elapse(@),
                   !.endTime = Max(0, @ - TickMs)]

hookCountdownTick(h) ==
    IF G.kind = "A" THEN renderA(countdownTickA(h)) ELSE renderB(countdownTickB(h))

hookTimerFire(h) ==
    IF G.kind = "A" THEN renderA(timerFireA(h)) ELSE renderB(timerFireB(h))

hookFetchDone(h, r) ==
    IF G.kind = "A" THEN renderA(performFetchDoneA(h, r))
    ELSE renderB(pollDoneB(h, 1, r))

hookRetry(h) == IF G.kind = "A" THEN renderA(retryA(h)) ELSE renderB(retryB(h))

hookUnmount(h) == IF G.kind = "A" THEN unmountA(h) ELSE unmountB(h)

\* an event of instance i: its handler runs on the instance's cells
PairStep(i, next) ==
    /\ G' = [G EXCEPT !.cells[instanceCells(i)] = next, !.actor = i]
    /\ UNCHANGED <<hook, A, B, event, retried, streak, pristine, call, P, R, X>>

PairMount(i) ==
    /\ Inst(i).phase = "idle"
    /\ PairStep(i, hookMount(Inst(i)))

\* one second passes for both instances
PairAdvanceTime ==
    /\ NoneDue /\ G.seconds < MaxSeconds
    /\ \E i \in Instances : hookTimer(Inst(i)) # None \/ Inst(i).countdownRef # None
    /\ G' = [G EXCEPT !.cells = [c \in Instances |-> hookElapse(@[c])],
                      !.seconds = @ + 1, !.actor = 0]
    /\ UNCHANGED <<hook, A, B, event, retried, streak, pristine, call, P, R, X>>

PairCountdownTick(i) ==
    /\ Inst(i).countdownRef = Some(0)
    /\ PairStep(i, hookCountdownTick(Inst(i)))

PairTimerFire(i) ==
    /\ hookTimer(Inst(i)) = Some(0)
    /\ PairStep(i, hookTimerFire(Inst(i)))

PairFetchDone(i) ==
    /\ NoneDue /\ hookInFlight(Inst(i)) > 0
    /\ \E r \in PairResponses : PairStep(i, hookFetchDone(Inst(i), r))

\* retry() of an instance that has nothing outstanding
PairRetry(i) ==
    /\ NoneDue /\ Inst(i).phase = "mounted"
    /\ hookInFlight(Inst(i)) = 0 /\ hookTimer(Inst(i)) = None
    /\ PairStep(i, hookRetry(Inst(i)))

PairUnmount(i) ==
    /\ NoneDue /\ Inst(i).phase = "mounted"
    /\ PairStep(i, hookUnmount(Inst(i)))

(***************************************************************************)
(* The API routes POST /api/issues/:number/execute and                     *)
(* GET /api/sessions/:sessionId, one request at a time. A handler runs     *)
(* from one await to the next in a step.                                   *)
(*   pc        "start", the library call awaited, or "done"                *)
(*   trail     the checks of the execute handler passed so far, in order   *)
(*   creates   calls of createSession made                                 *)
(*   response  the status and the error text sent (error "" on success)    *)
(***************************************************************************)
NoRequest == [route |-> "none"]

\* parseInt gives NaN
NaN == -1

Digits == "0123456789"

IsDigit(c) == \E i \in 1..Len(Digits) : SubSeq(Digits, i, i) = c

DigitValue(c) == (CHOOSE i \in 1..Len(Digits) : SubSeq(Digits, i, i) = c) - 1

\* parseInt(text, 10) of a text without leading blanks or sign: the number
\* its leading digits spell, NaN if it starts with none
RECURSIVE ParseDigits(_, _)
ParseDigits(text, acc) ==
    IF Len(text) = 0 \/ ~IsDigit(SubSeq(text, 1, 1)) THEN acc
    ELSE ParseDigits(SubSeq(text, 2, Len(text)),
                     (IF acc = NaN THEN 0 ELSE acc * 10) + DigitValue(SubSeq(text, 1, 1)))

ParseInt(text) == ParseDigits(text, NaN)

\* message.includes(part)
Includes(message, part) ==
    \E i \in 1..(Len(message) - Len(part) + 1) :
        SubSeq(message, i, i + Len(part) - 1) = part

\* the Error that createSession and getSession throw on a response that is
\* not ok
DevinApiError(status, text) ==
    "Devin API error (" \o ToString(status) \o "): " \o text

respond(x, status, error) ==
    [x EXCEPT !.pc = "done", !.response = Some([status |-> status, error |-> error])]

pass(x, check) == [x EXCEPT !.trail = Append(@, check)]

\* the catch block of the execute route
executeCatch(x, message) ==
    IF Includes(message, "environment variable") THEN respond(x, 500, message)
    ELSE IF Includes(message, "Devin API") THEN respond(x, 502, message)
    ELSE respond(x, 500, "Failed to create execute session")

\* the catch block of the sessions route
sessionsCatch(x, message) ==
    IF Includes(message, "environment variable") THEN respond(x, 500, message)
    ELSE IF Includes(message, "Devin API error (404)")
    THEN respond(x, 404, "Session not found")
    ELSE IF Includes(message, "Devin API") THEN respond(x, 502, message)
    ELSE respond(x, 500, "Failed to fetch session details")

routeCatch(x, message) ==
    IF x.route = "execute" THEN executeCatch(x, message) ELSE sessionsCatch(x, message)

\* what a fetch of the Devin API ends with, as createSession and getSession
\* take it: the Error thrown ("" if none)
devinThrows(o) ==
    IF o.net THEN "fetch failed"
    ELSE IF ~IsOk(o.status) THEN DevinApiError(o.status, o.text)
    ELSE IF ~o.jsonOk THEN "Unexpected token < in JSON at position 0"
    ELSE ""

\* getApiKey, then the fetch is sent
callDevin(x, fn) ==
    IF ~x.env.DEVIN_API_KEY
    THEN routeCatch(x, "DEVIN_API_KEY environment variable is required")
    ELSE [x EXCEPT !.pc = fn,
                   !.creates = IF fn = "createSession" THEN @ + 1 ELSE @]

\* POST execute up to its first await: the issue number, the body, then the
\* call of getSession
postExecuteStart(x) ==
    IF ParseInt(x.number) = NaN THEN respond(x, 400, "Invalid issue number")
    ELSE LET x1 == pass(x, "number") IN
         \* const { scopeSessionId, clarifications } = body
         IF x.body.json = "null"
         THEN executeCatch(x1, "Cannot destructure property 'scopeSessionId' of null")
         ELSE IF x.body.scopeSessionId \in {Absent, ""}
         THEN respond(x1, 400, "scopeSessionId is required in request body")
         ELSE callDevin(pass(x1, "scopeSessionId"), "getSession")

\* POST execute from the scope session to the await of getIssue (getOctokit
\* and getRepoConfig throw before anything is sent)
postExecuteGotSession(x, o) ==
    IF devinThrows(o) # "" THEN executeCatch(x, devinThrows(o))
    ELSE IF o.structured_output = None
    THEN respond(x, 400, "Scope session has no structured output yet")
    ELSE LET x1 == pass(x, "scopeOutput") IN
         IF ~x.env.GITHUB_TOKEN
         THEN executeCatch(x1, "GITHUB_TOKEN environment variable is required")
         ELSE IF ~x.env.GITHUB_REPO
         THEN executeCatch(x1, "GITHUB_OWNER and GITHUB_REPO environment variables are required")
         ELSE [x1 EXCEPT !.pc = "getIssue"]

\* POST execute from the issue to the call of createSession
postExecuteGotIssue(x, found) ==
    IF ~found THEN executeCatch(x, "Not Found")
    ELSE LET x1 == pass(x, "issue") IN
         IF ~x.env.GITHUB_TOKEN
         THEN respond(x1, 500, "GITHUB_TOKEN environment variable is required for execution")
         ELSE callDevin(pass(x1, "token"), "createSession")

postExecuteCreated(x, o) ==
    IF devinThrows(o) # "" THEN executeCatch(x, devinThrows(o))
    ELSE respond(x, 200, "")

\* GET sessions up to its await of getSession
getSessionsStart(x) ==
    IF x.sessionId = "" THEN respond(x, 400, "Session ID is required")
    ELSE callDevin(x, "getSession")

getSessionsGotSession(x, o) ==
    IF devinThrows(o) # "" THEN sessionsCatch(x, devinThrows(o))
    ELSE respond(x, 200, "")

\* bodies of an error response of the Devin API
ErrorTexts ==
    {"Unauthorized", "internal error: environment variable DATABASE_URL is not set"}

\* what a fetch of the Devin API may end with: no response, a response that
\* is not ok with its text, or an ok response whose body is JSON or not
DevinOutcomes ==
    { [net |-> TRUE, status |-> 0, text |-> "", jsonOk |-> FALSE,
       structured_output |-> None] }
    \cup
    { [net |-> FALSE, status |-> st, text |-> t, jsonOk |-> FALSE,
       structured_output |-> None] : st \in {401, 404, 429, 500}, t \in ErrorTexts }
    \cup
    { [net |-> FALSE, status |-> 200, text |-> "", jsonOk |-> TRUE,
       structured_output |-> out] : out \in {None, Some("plan")} }
    \cup
    { [net |-> FALSE, status |-> 200, text |-> "", jsonOk |-> FALSE,
       structured_output |-> None] }

\* process.env: which of the variables are set
Envs == [DEVIN_API_KEY : BOOLEAN, GITHUB_TOKEN : BOOLEAN, GITHUB_REPO : BOOLEAN]

\* request bodies: not JSON (taken for {}), the JSON null, or an object
Bodies ==
    { [json |-> "invalid", scopeSessionId |-> Absent],
      [json |-> "null", scopeSessionId |-> Absent] }
    \cup { [json |-> "object", scopeSessionId |-> i] : i \in {Absent, "", "scope-1"} }

RouteRequest(route, number, body, sessionId, env) ==
    [route |-> route, number |-> number, body |-> body, sessionId |-> sessionId,
     env |-> env, pc |-> "start", trail |-> << >>, creates |-> 0,
     scope |-> None, upstream |-> None, response |-> None]

ExecuteRequests ==
    { RouteRequest("execute", n, b, "", e) :
        n \in {"7", "12abc", "abc", ""}, b \in Bodies, e \in Envs }

SessionsRequests ==
    { RouteRequest("sessions", "", [json |-> "invalid", scopeSessionId |-> Absent], i, e) :
        i \in {"", "session-1"}, e \in Envs }

RouteStep(next) ==
    /\ X' = next
    /\ UNCHANGED <<hook, A, B, event, retried, streak, pristine, call, P, R, G>>

RouteStart ==
    /\ X.pc = "start"
    /\ RouteStep(IF X.route = "execute" THEN postExecuteStart(X)
                 ELSE getSessionsStart(X))

RouteGotSession ==
    /\ X.pc = "getSession"
    /\ \E o \in DevinOutcomes :
        LET x == [X EXCEPT !.scope = Some(o), !.upstream = Some(o)] IN
        RouteStep(IF X.route = "execute" THEN postExecuteGotSession(x, o)
                  ELSE getSessionsGotSession(x, o))

RouteGotIssue ==
    /\ X.pc = "getIssue"
    /\ \E found \in BOOLEAN : RouteStep(postExecuteGotIssue(X, found))

RouteCreated ==
    /\ X.pc = "createSession"
    /\ \E o \in DevinOutcomes :
        RouteStep(postExecuteCreated([X EXCEPT !.upstream = Some(o)], o))

(***************************************************************************)
(* Specification.                                                          *)
(***************************************************************************)
Init ==
    /\ hook \in {"A", "B"}
    /\ A = InitA
    /\ B = InitB
    /\ event = Event("init", NoResp, None, "normal")
    /\ retried = FALSE
    /\ streak = 0
    /\ pristine = TRUE
    /\ call = NoCall
    /\ P = InitP
    /\ R = InitR
    /\ G = InitG("none")
    /\ X = NoRequest

Next ==
    \/ MountA
    \/ AdvanceTimeA
    \/ CountdownTickA
    \/ TimerFireA
    \/ FetchDoneA
    \/ RetryA
    \/ UnmountA
    \/ MountB
    \/ AdvanceTimeB
    \/ CountdownTickB
    \/ TimerFireB
    \/ FetchDoneB
    \/ RetryB
    \/ UnmountB

Spec == Init /\ [][Next]_vars

(***************************************************************************)
(* StatusStrip: the part of its render that picks the attention message.   *)
(* A session id is an optional string, the data of a pill the last         *)
(* snapshot its poller delivered (null before the first one).              *)
(***************************************************************************)
\* the choice with the scope status asked first
needsAttentionWorkflowScopeFirst(scopeWorkflow, executeWorkflow) ==
    IF scopeWorkflow # None /\ The(scopeWorkflow).needsAttention
    THEN scopeWorkflow
    ELSE IF executeWorkflow # None /\ The(executeWorkflow).needsAttention
    THEN executeWorkflow
    ELSE None

\* a choice that looks at the scope workflow only
needsAttentionWorkflowScopeOnly(scopeWorkflow, executeWorkflow) ==
    IF scopeWorkflow # None /\ The(scopeWorkflow).needsAttention
    THEN scopeWorkflow
    ELSE None

\* executeWorkflow?.needsAttention ? executeWorkflow :
\*   (scopeWorkflow?.needsAttention ? scopeWorkflow : null)
needsAttentionWorkflow(scopeWorkflow, executeWorkflow) ==
    IF executeWorkflow # None /\ The(executeWorkflow).needsAttention
    THEN executeWorkflow
    ELSE IF scopeWorkflow # None /\ The(scopeWorkflow).needsAttention
    THEN scopeWorkflow
    ELSE None

\* data?.status_enum || null
statusEnumOrNull(data) ==
    IF data = None \/ The(data).status_enum = "" THEN None
    ELSE Some(The(data).status_enum)

\* data?.structured_output || null
structuredOutputOrNull(data) ==
    IF data = None THEN None ELSE The(data).structured_output

\* data?.pull_request_url
pullRequestUrlOf(data) ==
    IF data = None THEN None ELSE The(data).pull_request_url

\* the characters of a timestamp and their UTF-16 code units
Alphabet == "-.0123456789:TZ"

CodeUnits == <<45, 46, 48, 49, 50, 51, 52, 53, 54, 55, 56, 57, 58, 84, 90>>

CodeUnit(c) == CodeUnits[CHOOSE i \in 1..Len(Alphabet) : SubSeq(Alphabet, i, i) = c]

\* the order Array.prototype.sort() puts strings in: by code units, a proper
\* prefix first
RECURSIVE StringLess(_, _)
StringLess(a, b) ==
    IF Len(b) = 0 THEN FALSE
    ELSE IF Len(a) = 0 THEN TRUE
    ELSE LET x == CodeUnit(SubSeq(a, 1, 1))
             y == CodeUnit(SubSeq(b, 1, 1))
         IN  IF x # y THEN x < y
             ELSE StringLess(SubSeq(a, 2, Len(a)), SubSeq(b, 2, Len(b)))

\* xs.sort(), by insertion
RECURSIVE Insert(_, _)
Insert(x, sorted) ==
    IF Len(sorted) = 0 THEN <<x>>
    ELSE IF StringLess(x, Head(sorted)) THEN <<x>> \o sorted
    ELSE <<Head(sorted)>> \o Insert(x, Tail(sorted))

RECURSIVE Sort(_)
Sort(xs) == IF Len(xs) = 0 THEN << >> ELSE Insert(Head(xs), Sort(Tail(xs)))

RECURSIVE Reverse(_)
Reverse(xs) == IF Len(xs) = 0 THEN << >> ELSE Reverse(Tail(xs)) \o <<Head(xs)>>

\* data?.updated_at, then .filter(Boolean): nothing for no data or ""
updatedAtOf(data) ==
    IF data = None \/ The(data).updated_at = "" THEN << >>
    ELSE <<The(data).updated_at>>

\* the sorted timestamps taken from the front, without the reverse()
latestUpdateOldest(scopeData, executeData) ==
    LET xs == Sort(updatedAtOf(scopeData) \o updatedAtOf(executeData))
    IN  IF Len(xs) = 0 THEN None ELSE Some(xs[1])

\* [scopeData?.updated_at, executeData?.updated_at]
\*     .filter(Boolean).sort().reverse()[0]
latestUpdate(scopeData, executeData) ==
    LET xs == Reverse(Sort(updatedAtOf(scopeData) \o updatedAtOf(executeData)))
    IN  IF Len(xs) = 0 THEN None ELSE Some(xs[1])

\* a truncation that cuts a detail of exactly 50 characters too
attentionDetailCutsAtFifty(detail) ==
    IF Len(detail) >= 50 THEN SubSeq(detail, 1, 50) \o "..." ELSE detail

\* detail.length > 50 ? detail.substring(0, 50) + '...' : detail
attentionDetail(detail) ==
    IF Len(detail) > 50 THEN SubSeq(detail, 1, 50) \o "..." ELSE detail

StatusStrip(scopeSessionId, executeSessionId, scopeData, executeData) ==
    IF scopeSessionId = None /\ executeSessionId = None
    THEN [rendered |-> FALSE, scopeWorkflow |-> None, executeWorkflow |-> None,
          needsAttentionWorkflow |-> None, attention |-> None,
          latestUpdate |-> None]
    ELSE
    LET scopeWorkflow ==
            IF scopeSessionId # None
            THEN Some(deriveWorkflowStatus("scope", statusEnumOrNull(scopeData),
                                           structuredOutputOrNull(scopeData), None))
            ELSE None
        executeWorkflow ==
            IF executeSessionId # None
            THEN Some(deriveWorkflowStatus("execute", statusEnumOrNull(executeData),
                                           structuredOutputOrNull(executeData),
                                           pullRequestUrlOf(executeData)))
            ELSE None
        chosen == needsAttentionWorkflow(scopeWorkflow, executeWorkflow)
    IN  [rendered |-> TRUE,
         scopeWorkflow |-> scopeWorkflow, executeWorkflow |-> executeWorkflow,
         needsAttentionWorkflow |-> chosen,
         \* needsAttentionWorkflow && needsAttentionWorkflow.detail && (...)
         attention |->
            IF chosen # None /\ The(chosen).detail # None /\ The(The(chosen).detail) # ""
            THEN Some([text |-> The(chosen).label, detail |-> The(The(chosen).detail),
                       title |-> The(The(chosen).detail),
                       shown |-> attentionDetail(The(The(chosen).detail))])
            ELSE None,
         latestUpdate |-> latestUpdate(scopeData, executeData)]

(***************************************************************************)
(* Calls of the pure functions and renders of StatusStrip, one per         *)
(* behaviour: Init draws the arguments, the step applies the function.     *)
(***************************************************************************)
Optional(S) == {None} \cup {Some(x) : x \in S}

KnownStatuses ==
    {"pending", "queued", "running", "blocked", "paused", "finished", "failed",
     "cancelled", "expired"}

\* raw status strings: the known ones, the empty string and an unknown one
StatusEnums == KnownStatuses \cup {"", "suspended"}

\* structured outputs; the record of four absent keys stands for a mapping
\* that holds none of them
Outputs ==
    { [blocking_issue |-> b, needs_input |-> n, current_task |-> t,
       needs_human_input |-> f] :
        b \in {Absent, "", "merge conflict"}, n \in {Absent, "", "which branch?"},
        t \in {Absent, "", "run tests"}, f \in BOOLEAN }

PullRequestUrls == {"", "https://github.com/o/r/pull/1"}

BackoffConfigs ==
    { [baseDelay |-> b, maxDelay |-> m, multiplier |-> k] :
        b \in {1000, 2000}, m \in {1500, 10000, 60000}, k \in {1, 2, 3} }

\* a structured output that names a blocking issue
BlockingOutput ==
    [blocking_issue |-> "merge conflict", needs_input |-> Absent,
     current_task |-> "run tests", needs_human_input |-> TRUE]

\* blocking issues of 50 and of 51 characters
FiftyChars == "The migration cannot run: two heads in the schema."

FiftyOneChars == "The migration cannot run: two heads in the schema.."

LongOutputs ==
    { [BlockingOutput EXCEPT !.blocking_issue = text] :
        text \in {FiftyChars, FiftyOneChars, FiftyOneChars \o " Which one is current?"} }

\* the platform stamps a snapshot with the ISO-8601 text (UTC, to the second)
\* of the instant it was last updated; Instant gives that instant back
Timestamps ==
    {"2024-05-01T09:59:59Z", "2024-05-01T10:00:00Z", "2024-05-02T00:00:00Z"}

Instant(text) ==
    CASE text = "2024-05-01T09:59:59Z" -> 1
      [] text = "2024-05-01T10:00:00Z" -> 2
      [] text = "2024-05-02T00:00:00Z" -> 3

\* the snapshots a pill of StatusStrip may hold
StripSessions ==
    { [status_enum |-> st, structured_output |-> out, pull_request_url |-> None,
       updated_at |-> at] :
        st \in {"running", "blocked", "paused", "failed", "finished"},
        out \in {None, Some(PlainOutput), Some(BlockingOutput)}
                    \cup {Some(o) : o \in LongOutputs},
        at \in Timestamps }

Call(fn, args) == [fn |-> fn, args |-> args, ret |-> None]

BackoffCalls ==
    { Call("calculateBackoffDelay", [failureCount |-> n, config |-> c]) :
        n \in 1..MaxFailureCount, c \in BackoffConfigs }

DeriveCalls ==
    { Call("deriveWorkflowStatus",
           [type |-> t, statusEnum |-> st, structuredOutput |-> out,
            pullRequestUrl |-> pr]) :
        t \in SessionKinds, st \in Optional(StatusEnums),
        out \in Optional(Outputs), pr \in Optional(PullRequestUrls) }

\* a pill exists, and so holds data, only for an attached session
StripArgs ==
    { a \in [scopeSessionId : Optional({"scope-1"}),
             executeSessionId : Optional({"execute-1"}),
             scopeData : Optional(StripSessions),
             executeData : Optional(StripSessions)] :
        /\ a.scopeSessionId = None => a.scopeData = None
        /\ a.executeSessionId = None => a.executeData = None }

StripCalls == { Call("StatusStrip", a) : a \in StripArgs }

Return(value) ==
    /\ call' = [call EXCEPT !.ret = Some(value)]
    /\ UNCHANGED <<hook, A, B, event, retried, streak, pristine, P, R, G, X>>

CallCalculateBackoffDelay ==
    /\ call.fn = "calculateBackoffDelay" /\ call.ret = None
    /\ Return(calculateBackoffDelay(call.args.failureCount, call.args.config))

CallDeriveWorkflowStatus ==
    /\ call.fn = "deriveWorkflowStatus" /\ call.ret = None
    /\ Return(deriveWorkflowStatus(call.args.type, call.args.statusEnum,
                                   call.args.structuredOutput, call.args.pullRequestUrl))

RenderStatusStrip ==
    /\ call.fn = "StatusStrip" /\ call.ret = None
    /\ Return(StatusStrip(call.args.scopeSessionId, call.args.executeSessionId,
                          call.args.scopeData, call.args.executeData))

CallInit ==
    /\ hook = "none"
    /\ A = InitA
    /\ B = InitB
    /\ event = Event("init", NoResp, None, "normal")
    /\ retried = FALSE
    /\ streak = 0
    /\ pristine = TRUE
    /\ call \in BackoffCalls \cup DeriveCalls \cup StripCalls
    /\ P = InitP
    /\ R = InitR
    /\ G = InitG("none")
    /\ X = NoRequest

CallNext ==
    \/ CallCalculateBackoffDelay
    \/ CallDeriveWorkflowStatus
    \/ RenderStatusStrip

CallSpec == CallInit /\ [][CallNext]_vars

PollerInit ==
    /\ HooksIdle
    /\ event = Event("init", NoResp, None, "normal")
    /\ call = NoCall
    /\ P = InitP
    /\ R = InitR
    /\ G = InitG("none")
    /\ X = NoRequest

PollerNext ==
    \/ MountP
    \/ AdvanceTimeP
    \/ IntervalFireP
    \/ FetchDoneP
    \/ UnmountP

PollerSpec == PollerInit /\ [][PollerNext]_vars

RowInit ==
    /\ HooksIdle
    /\ event = Event("init", NoResp, None, "normal")
    /\ call = NoCall
    /\ P = InitP
    /\ R = InitR
    /\ G = InitG("none")
    /\ X = NoRequest

RowNext ==
    \/ \E n \in Issues : MountRow(n)
    \/ \E n \in Issues : UnmountRow(n)
    \/ \E n \in Issues : ClickScope(n)
    \/ \E n \in Issues : ClickExecute(n)
    \/ PlatformCreates
    \/ HandlerResumesCreated
    \/ HandlerResumesFailed

RowSpec == RowInit /\ [][RowNext]_vars

PairInit ==
    /\ HooksIdle
    /\ event = Event("init", NoResp, None, "normal")
    /\ call = NoCall
    /\ P = InitP
    /\ R = InitR
    /\ G \in {InitG("A"), InitG("B")}
    /\ X = NoRequest

PairNext ==
    \/ \E i \in Instances : PairMount(i)
    \/ PairAdvanceTime
    \/ \E i \in Instances : PairCountdownTick(i)
    \/ \E i \in Instances : PairTimerFire(i)
    \/ \E i \in Instances : PairFetchDone(i)
    \/ \E i \in Instances : PairRetry(i)
    \/ \E i \in Instances : PairUnmount(i)

PairSpec == PairInit /\ [][PairNext]_vars

RouteInit ==
    /\ HooksIdle
    /\ event = Event("init", NoResp, None, "normal")
    /\ call = NoCall
    /\ P = InitP
    /\ R = InitR
    /\ G = InitG("none")
    /\ X \in ExecuteRequests \cup SessionsRequests

RouteNext ==
    \/ RouteStart
    \/ RouteGotSession
    \/ RouteGotIssue
    \/ RouteCreated

RouteSpec == RouteInit /\ [][RouteNext]_vars

(***************************************************************************)
(* Properties.                                                             *)
(***************************************************************************)
\* the response the last step delivered
Delivered == The(event.resp)

\* a step that delivered a response to the mounted hook
DoneStep == event.op = "done" /\ Mounted

\* a session that neither the pollers' stop test nor the status deriver
\* takes for terminal
KeepsPolling(s) ==
    /\ ~shouldStopPolling(Some(s))
    /\ \A t \in SessionKinds :
        ~deriveWorkflowStatus(t, Some(s.status_enum), s.structured_output,
                              s.pull_request_url).isTerminal

\* C1: at every instant at most one fetch of the hook instance is in flight,
\* also when retry() is called during a fetch or while a retry timer is
\* pending.
C1_AtMostOneFetchInFlight == Mounted => InFlight <= 1

\* C2: with the default threshold 5, after five consecutive fetches that
\* failed with a transient error and no retry(), the mounted hook is
\* exhausted, and no sixth fetch is issued: none is in flight, no fetch timer
\* is pending, and the run of failures never gets longer than five.
C2_FiveTransientFailuresExhaust ==
    /\ streak <= 5
    /\ streak = 5 => (Exhausted /\ InFlight = 0 /\ FetchTimer = None)

C2_Witness == streak = 5 /\ Exhausted /\ DoneStep

\* C3: retry() called once while the hook is exhausted issues exactly one
\* fetch at once; when that fetch succeeds with non-terminal data the hook is
\* normal again with failure count 0 and the next poll scheduled.
C3_RetryFromExhaustedFetchesOnce ==
    [][ /\ (Mounted /\ Exhausted /\ event'.op = "retry") => InFlight' = InFlight + 1
        /\ ( /\ event.op = "retry" /\ event.mode = "exhausted" /\ InFlight = 1
             /\ event'.op = "done" /\ Mounted
             /\ IsSuccessResponse(Delivered') /\ KeepsPolling(The(Delivered'.body)) )
           => (Normal' /\ FailureCount' = 0 /\ FetchTimer' # None) ]_vars

\* C4: after a successful fetch the session pollers stop polling if and only
\* if deriveWorkflowStatus(...).isTerminal holds of the fetched session,
\* whichever kind the session is; when it does not hold the next fetch is
\* scheduled after the base interval of 15000 ms.
C4_StopsIffDerivedTerminal ==
    (DoneStep /\ IsSuccessResponse(Delivered) /\ InFlight = 0) =>
        LET s == The(Delivered.body) IN
        \A t \in SessionKinds :
            LET terminal == deriveWorkflowStatus(t, Some(s.status_enum),
                                s.structured_output, s.pull_request_url).isTerminal
            IN  /\ terminal <=> FetchTimer = None
                /\ ~terminal => FetchTimer = Some(15000)

\* C5: one fetch that fails with a permanent classification (HTTP 404 or any
\* other non-2xx status that is not 429/502/503/504) moves the hook straight
\* to the exhausted state, with no retry timer and no countdown scheduled.
C5_PermanentFailureExhausts ==
    (DoneStep /\ IsPermanentResponse(Delivered)) =>
        (Exhausted /\ FetchTimer = None /\ Ticker = None)

\* C6: hook A as driven by SessionStatus.fetchSession takes every HTTP
\* 429/502/503/504 response and every network failure for transient: while
\* the count after the failure is below the threshold the hook is 'degraded'
\* with a retry timer pending, whatever the error's name or message and
\* whether or not the error body is JSON.
C6_TransientAlwaysBacksOff ==
    (DoneStep /\ hook = "A" /\ IsTransientResponse(Delivered)
        /\ A.failureCount < failureThreshold) =>
        (A.pollingState = "degraded" /\ A.timerRef # None)

\* C7: an exhausted hook (A: pollingState = 'failed', B: isFailed) has no
\* fetch timer and no countdown ticker pending, in every reachable state.
C7_ExhaustedHasNoTimers ==
    (Mounted /\ Exhausted) => (FetchTimer = None /\ Ticker = None)

\* C8: once the hook is disposed, in any state and also with a fetch in
\* flight that completes afterwards, no fetch timer and no countdown ticker
\* is outstanding and no further fetch is issued.
C8_DisposedLeavesNothing ==
    Disposed =>
        /\ FetchTimer = None
        /\ Ticker = None
        /\ event.op = "timer" => InFlight = 0

\* nothing of the hook is scheduled or in flight
Quiet == FetchTimer = None /\ Ticker = None /\ InFlight = 0

\* C9: disposing the hook while it backs off (retry timer and countdown
\* pending, no fetch in flight) leaves no timer and no ticker, and whatever
\* time passes afterwards nothing happens any more: the disposed, quiet hook
\* takes no further step, so issues no fetch.
C9_DisposeWhileBackingOff ==
    [][ /\ ( /\ event'.op = "unmount" /\ BackingOff /\ InFlight = 0
             /\ FetchTimer # None /\ Ticker # None )
           => (Disposed' /\ Quiet')
        /\ ~(Disposed /\ Quiet) ]_vars

C9_Witness == event.op = "unmount" /\ event.mode = "backoff" /\ Disposed /\ Quiet

\* the base, cap and multiplier of the hook's backoff
BackoffBase == IF hook = "A" THEN baseInterval ELSE DEFAULT_BACKOFF.baseDelay

BackoffCap == IF hook = "A" THEN maxBackoff ELSE DEFAULT_BACKOFF.maxDelay

BackoffMultiplier == IF hook = "A" THEN 2 ELSE DEFAULT_BACKOFF.multiplier

\* C10: when the first three fetches fail with HTTP 503 and the fourth
\* returns 200 with non-terminal data, the failure count is 1, 2, 3 and then
\* 0, the delay scheduled after the k-th failure is
\* nextDelay(k) = min(cap, base * multiplier^(k-1)) of the hook's base,
\* multiplier and cap, and after the fourth attempt the hook is normal.
C10_ThreeFailuresThenSuccess ==
    (DoneStep /\ event.before # None) =>
        LET k == The(event.before) + 1 IN
        /\ ( /\ k \in 1..3
             /\ ~Delivered.net /\ Delivered.status = 503 /\ Delivered.jsonOk )
           => /\ FailureCount = k
              /\ BackingOff
              /\ FetchTimer = Some(nextDelay(k, BackoffBase, BackoffCap, BackoffMultiplier))
        /\ ( /\ k = 4
             /\ IsSuccessResponse(Delivered) /\ KeepsPolling(The(Delivered.body)) )
           => (FailureCount = 0 /\ Normal)

\* C11: retry() resets the failure count to 0 before the fetch it triggers:
\* when the only fetch in flight after a retry() fails with a transient
\* error (HTTP 503 with a JSON body), the failure count is exactly 1 and the
\* delay scheduled is nextDelay(1) of the hook's base, multiplier and cap.
C11_RetryResetsFailureCount ==
    [][ ( /\ event.op = "retry" /\ Mounted /\ InFlight = 1
          /\ event'.op = "done"
          /\ ~Delivered'.net /\ Delivered'.status = 503 /\ Delivered'.jsonOk )
        => /\ FailureCount' = 1
           /\ FetchTimer' = Some(nextDelay(1, BackoffBase, BackoffCap, BackoffMultiplier))
      ]_vars

\* C12: hook A's data is sticky: a step of the mounted hook that delivers a
\* successful fetch makes data that fetch's payload, and every other step (a
\* failed fetch of either class, a transition to degraded or failed, a
\* retry(), a timer) leaves data as it was, so it never goes back to null.
C12_DataIsSticky ==
    [][ (hook = "A" /\ Mounted /\ Mounted') =>
            IF event'.op = "done" /\ IsSuccessResponse(Delivered')
            THEN A'.data = Delivered'.body
            ELSE A'.data = A.data ]_vars

C12_Witness ==
    /\ hook = "A" /\ Mounted /\ A.data # None
    /\ event.op = "retry" /\ event.mode = "exhausted"

\* the hook A poller has stopped on a finished session and was never retried
StoppedOnFinished ==
    /\ hook = "A" /\ Mounted /\ ~retried
    /\ A.data # None /\ The(A.data).status_enum = "finished"

\* C23: hook A under SessionStatus, scope session: when the data held is a
\* 'running' snapshot and the fetch issued by the base-interval timer returns
\* 'finished' with a structured output, the poller stops (no timer, no
\* ticker, nothing in flight, and no fetch is issued afterwards), data is
\* the finished payload and its derived scope status is 'Scoped', 'success',
\* terminal.
C23_RunningThenFinishedStops ==
    [][ /\ ( /\ hook = "A" /\ Mounted /\ ~retried
             /\ A.data # None /\ The(A.data).status_enum = "running"
             /\ A.pollingState = "normal" /\ A.inflight = 1
             /\ event'.op = "done" /\ IsSuccessResponse(Delivered')
             /\ The(Delivered'.body).status_enum = "finished"
             /\ The(Delivered'.body).structured_output # None )
           => /\ A'.timerRef = None /\ A'.countdownRef = None /\ A'.inflight = 0
              /\ ~A'.isPolling
              /\ A'.data = Delivered'.body
              /\ LET s == The(A'.data)
                     d == deriveWorkflowStatus("scope", Some(s.status_enum),
                                               s.structured_output, s.pull_request_url)
                 IN  d.label = "Scoped" /\ d.kind = "success" /\ d.isTerminal
        /\ (StoppedOnFinished /\ event'.op # "retry") =>
                (A'.inflight <= A.inflight /\ A'.timerRef = None)
      ]_vars

C23_Witness ==
    /\ StoppedOnFinished /\ event.op = "done" /\ event.pre.status = "running"
    /\ A.timerRef = None /\ A.inflight = 0

\* C27: at most one fetch timer and at most one countdown ticker of the
\* instance are live, in every reachable state, also with the overlapping
\* fetches a retry() causes.
C27_OneTimerOneTicker == Timers <= 1 /\ Tickers <= 1

\* a response was delivered while a fetch timer was pending, and a new timer
\* was scheduled
C27_Witness ==
    /\ DoneStep /\ event.pre.timer /\ FetchTimer # None
    /\ Timers = 1 /\ Tickers = 1

\* C28: the exposed seconds-to-retry is non-null only while the mounted hook
\* is backing off; it is null while the hook waits for the next regular
\* poll, when it is exhausted and after it stopped on a terminal status.
C28_SecondsToRetryOnlyInBackoff ==
    (Mounted /\ SecondsToRetry # None) => BackingOff

\* C29: the exposed failure count is the number of consecutive failed
\* fetches since the last success or retry(): after a run of k transient
\* failures from the mount on, a failed fetch of either class makes it
\* k + 1, a successful one makes it 0, and a transient failure exhausts the
\* hook exactly when k + 1 reaches the threshold 5.
C29_FailureCountCountsFailures ==
    (DoneStep /\ event.before # None) =>
        LET k == The(event.before) IN
        /\ IsSuccessResponse(Delivered) => FailureCount = 0
        /\ ~IsSuccessResponse(Delivered) => FailureCount = k + 1
        /\ (~Delivered.net /\ Delivered.status = 503 /\ Delivered.jsonOk) =>
                (Exhausted <=> k + 1 >= 5)

\* C30: mounting the hook issues its first fetch at once, before any timer
\* runs, and issues exactly one fetch.
C30_MountFetchesOnce ==
    event.op = "mount" => (InFlight = 1 /\ FetchTimer = None /\ Ticker = None)

C30_Witness == event.op = "mount" /\ Mounted /\ InFlight = 1

\* the call has returned
Returned(fn) == call.fn = fn /\ call.ret # None

Ret == The(call.ret)

\* C13: calculateBackoffDelay(failureCount, config) is
\* min(maxDelay, baseDelay * multiplier^(failureCount-1)) for failureCount >= 1,
\* never exceeds maxDelay, is at least the delay of every smaller failure
\* count, and for baseDelay 2000, multiplier 2, maxDelay 60000 gives 2000,
\* 4000, 8000, 16000, 32000, 60000 for the failure counts 1..6.
C13_BackoffDelayFormula ==
    Returned("calculateBackoffDelay") =>
        LET n == call.args.failureCount
            c == call.args.config
        IN  /\ Ret = nextDelay(n, c.baseDelay, c.maxDelay, c.multiplier)
            /\ Ret <= c.maxDelay
            /\ \A m \in 1..n : calculateBackoffDelay(m, c) <= Ret
            /\ ( /\ c = [baseDelay |-> 2000, maxDelay |-> 60000, multiplier |-> 2]
                 /\ n <= 6 )
               => Ret = <<2000, 4000, 8000, 16000, 32000, 60000>>[n]

C13_Witness ==
    /\ Returned("calculateBackoffDelay")
    /\ call.args.config = [baseDelay |-> 2000, maxDelay |-> 60000, multiplier |-> 2]
    /\ call.args.failureCount = 6
    /\ Ret = 60000

\* C14: for both session kinds and every statusEnum string outside the nine
\* known statuses, the empty string included, deriveWorkflowStatus returns
\* isTerminal false, needsAttention false, kind 'pending' and the raw string
\* as label.
C14_UnknownStatusFallsBack ==
    ( /\ Returned("deriveWorkflowStatus")
      /\ call.args.statusEnum # None
      /\ The(call.args.statusEnum) \notin KnownStatuses )
    => /\ Ret.isTerminal = FALSE
       /\ Ret.needsAttention = FALSE
       /\ Ret.kind = "pending"
       /\ Ret.label = The(call.args.statusEnum)

\* deriveWorkflowStatus(type, status, ...) has returned
Derived(type, status) ==
    /\ Returned("deriveWorkflowStatus")
    /\ call.args.type = type
    /\ call.args.statusEnum = Some(status)

\* C15: a scope session in raw status 'blocked' derives to terminal, kind
\* 'success', label 'Awaiting approval' when it has a structured output, and
\* to non-terminal, kind 'active', label 'Processing...' when the output is
\* null, whatever the pull-request argument.
C15_ScopeBlocked ==
    Derived("scope", "blocked") =>
        IF call.args.structuredOutput # None
        THEN Ret.isTerminal /\ Ret.kind = "success" /\ Ret.label = "Awaiting approval"
        ELSE ~Ret.isTerminal /\ Ret.kind = "active" /\ Ret.label = "Processing..."

C15_Witness ==
    /\ Derived("scope", "blocked")
    /\ call.args.structuredOutput # None /\ call.args.pullRequestUrl # None
    /\ Ret.isTerminal

\* C16: an execute session in raw status 'blocked' derives to non-terminal,
\* kind 'warning', needsAttention true for every structured output and every
\* pull-request URL.
C16_ExecuteBlocked ==
    Derived("execute", "blocked") =>
        (~Ret.isTerminal /\ Ret.kind = "warning" /\ Ret.needsAttention)

C16_Witness ==
    /\ Derived("execute", "blocked")
    /\ call.args.structuredOutput = Some(BlockingOutput)
    /\ call.args.pullRequestUrl # None
    /\ Ret.needsAttention

\* C17: with a missing statusEnum (null) deriveWorkflowStatus returns exactly
\* label 'Not started', kind 'pending', isTerminal true, needsAttention false
\* and no detail, for both kinds, every output and every pull-request URL.
C17_MissingStatusNotStarted ==
    (Returned("deriveWorkflowStatus") /\ call.args.statusEnum = None) =>
        Ret = [label |-> "Not started", kind |-> "pending", detail |-> None,
               isTerminal |-> TRUE, needsAttention |-> FALSE]

C17_Witness ==
    /\ Returned("deriveWorkflowStatus") /\ call.args.statusEnum = None
    /\ call.args.type = "execute"
    /\ call.args.structuredOutput = Some(BlockingOutput)
    /\ call.args.pullRequestUrl # None
    /\ Ret.label = "Not started"

\* the detail the claim C18 names for a structured output
ClaimedBlockingDetail(output) ==
    IF output = None THEN None
    ELSE LET o == The(output) IN
        IF NonEmptyString(o.blocking_issue) THEN Some(o.blocking_issue)
        ELSE IF NonEmptyString(o.needs_input) THEN Some(o.needs_input)
        ELSE IF o.needs_human_input /\ o.current_task # Absent THEN Some(o.current_task)
        ELSE None

\* C18: the detail of an execute session in raw status 'blocked' is
\* blocking_issue if that is a non-empty string, else needs_input if that is
\* a non-empty string, else current_task if needs_human_input is true, and
\* otherwise there is no detail.
C18_BlockedDetail ==
    Derived("execute", "blocked") =>
        Ret.detail = ClaimedBlockingDetail(call.args.structuredOutput)

\* C18 as amended: ... else current_task if that is a non-empty string and
\* needs_human_input is true, and otherwise the detail is the fixed text
\* 'Waiting for user input'.
C18_BlockedDetailOrFallback ==
    Derived("execute", "blocked") =>
        LET output == call.args.structuredOutput
            o == The(output)
        IN  Ret.detail =
                IF output # None /\ NonEmptyString(o.blocking_issue)
                THEN Some(o.blocking_issue)
                ELSE IF output # None /\ NonEmptyString(o.needs_input)
                THEN Some(o.needs_input)
                ELSE IF output # None /\ NonEmptyString(o.current_task)
                        /\ o.needs_human_input
                THEN Some(o.current_task)
                ELSE Some("Waiting for user input")

C18_Witness ==
    /\ Derived("execute", "blocked")
    /\ call.args.structuredOutput # None
    /\ The(call.args.structuredOutput).blocking_issue = "merge conflict"
    /\ The(call.args.structuredOutput).needs_input = "which branch?"
    /\ Ret.detail = Some("merge conflict")

\* C19: an execute session in raw status 'finished' derives to terminal with
\* kind 'success' for every input, labelled 'PR ready' exactly when the
\* pull-request URL is a non-empty string and 'Completed' otherwise, whatever
\* the structured output.
C19_ExecuteFinished ==
    Derived("execute", "finished") =>
        /\ Ret.isTerminal /\ Ret.kind = "success"
        /\ Ret.label = IF call.args.pullRequestUrl \notin {None, Some("")}
                       THEN "PR ready" ELSE "Completed"

C19_Witness ==
    /\ Derived("execute", "finished")
    /\ call.args.pullRequestUrl \notin {None, Some("")}
    /\ call.args.structuredOutput # None
    /\ Ret.label = "PR ready"

\* the status of a pill needs attention
Attention(workflow) == workflow # None /\ The(workflow).needsAttention

\* C20: in StatusStrip, when the scope status and the execute status both
\* need attention, the status chosen for the single attention message is the
\* execute one, and a message that is shown is the execute one's; the scope
\* status is chosen only when the execute status does not need attention.
C20_ExecuteAttentionFirst ==
    (Returned("StatusStrip") /\ Ret.rendered) =>
        /\ Attention(Ret.executeWorkflow) =>
                /\ Ret.needsAttentionWorkflow = Ret.executeWorkflow
                /\ Ret.attention # None =>
                        /\ The(Ret.attention).text = The(Ret.executeWorkflow).label
                        /\ Some(The(Ret.attention).detail) = The(Ret.executeWorkflow).detail
        /\ (~Attention(Ret.executeWorkflow) /\ Attention(Ret.scopeWorkflow)) =>
                Ret.needsAttentionWorkflow = Ret.scopeWorkflow
        /\ (~Attention(Ret.executeWorkflow) /\ ~Attention(Ret.scopeWorkflow)) =>
                Ret.needsAttentionWorkflow = None

C20_Witness ==
    /\ Returned("StatusStrip") /\ Ret.rendered
    /\ Attention(Ret.executeWorkflow) /\ Attention(Ret.scopeWorkflow)
    /\ Ret.executeWorkflow # Ret.scopeWorkflow
    /\ Ret.attention # None

\* the snapshots of the attached sessions that have delivered a fetch
DeliveredSnapshots ==
    { The(d) : d \in {call.args.scopeData, call.args.executeData} \ {None} }

\* C21: in StatusStrip the latest-update value is the updated_at of the
\* most recently updated snapshot among the sessions that have delivered a
\* successful fetch, and it is absent exactly when neither has delivered one.
C21_LatestUpdateIsGreatest ==
    (Returned("StatusStrip") /\ Ret.rendered) =>
        /\ Ret.latestUpdate = None <=> DeliveredSnapshots = {}
        /\ Ret.latestUpdate # None =>
            /\ \E d \in DeliveredSnapshots : d.updated_at = The(Ret.latestUpdate)
            /\ \A d \in DeliveredSnapshots :
                    Instant(d.updated_at) <= Instant(The(Ret.latestUpdate))

C21_Witness ==
    /\ Returned("StatusStrip") /\ Ret.rendered
    /\ call.args.scopeData # None /\ call.args.executeData # None
    /\ Instant(The(call.args.scopeData).updated_at)
            > Instant(The(call.args.executeData).updated_at)
    /\ Ret.latestUpdate = Some(The(call.args.scopeData).updated_at)

\* C22: the attention detail displayed is the whole detail when that has
\* at most 50 characters and its first 50 characters followed by '...' when
\* it is longer; the title carries the whole detail either way.
C22_AttentionDetailTruncated ==
    (Returned("StatusStrip") /\ Ret.attention # None) =>
        LET a == The(Ret.attention)
            full == The(The(Ret.needsAttentionWorkflow).detail)
        IN  /\ a.title = full
            /\ Len(full) <= 50 => a.shown = full
            /\ Len(full) > 50 =>
                    /\ Len(a.shown) = 53
                    /\ SubSeq(a.shown, 1, 50) = SubSeq(full, 1, 50)
                    /\ SubSeq(a.shown, 51, 53) = "..."

C22_Witness ==
    /\ Returned("StatusStrip") /\ Ret.attention # None
    /\ Len(The(Ret.attention).title) = 51
    /\ Len(The(Ret.attention).shown) = 53

\* fetches the interval poller issues in a step
IssuedP == P.inflight' - P.inflight + (IF event'.op = "done" THEN 1 ELSE 0)

\* the step delivers a terminal snapshot to the mounted poller
DeliversTerminalP ==
    /\ P.phase = "mounted" /\ event'.op = "done"
    /\ IsSuccessResponse(The(event'.resp))
    /\ The(The(event'.resp).body).status_enum \in TERMINAL_STATUSES

\* C24: in the interval poller of StatusStrip, once a fetch has returned a
\* snapshot with a terminal status_enum no further fetch is issued for the
\* session: neither the step that delivers the snapshot nor any step after
\* it starts a fetch
C24_TerminalStopsFetching ==
    [][(~P.isPolling \/ DeliversTerminalP) => IssuedP = 0]_vars

\* the sessions attached to the row of issue n
Attached(n) == { R.rows[n].sessions[i] : i \in DOMAIN R.rows[n].sessions }

\* the last session created of each kind for issue n
LatestSessions(n) ==
    { SessionInfo(The(R.latest[n][k]), k) :
        k \in { t \in SessionKinds : R.latest[n][t] # None } }

\* C25: when IssueRow for issue n is mounted after a sequence of successful
\* Scope and Execute creations for n, each completed before the row went
\* away, the sessions attached are exactly the most recently created
\* session of each kind for n: one entry per kind created, none of another
\* issue, none under the other kind
C25_ReloadAttachesLatest ==
    \A n \in Issues :
        (R.shown = n /\ ~R.racy[n]) =>
            /\ Attached(n) = LatestSessions(n)
            /\ Len(R.rows[n].sessions) = Cardinality(LatestSessions(n))

\* issue 1 is shown again after a scope and an execute session were created
\* for it, while issue 2 has a stored scope session of its own
C25_Witness ==
    /\ R.shown = 1 /\ ~R.racy[1]
    /\ Cardinality(LatestSessions(1)) = 2
    /\ R.localStorage[getStorageKey(2, "scope")] # None

\* C26: of two usePollingWithBackoff instances, every event of one (fetch
\* completion, timer expiry, countdown tick, retry(), mount, disposal)
\* leaves the other's data, polling state, failure count, seconds-to-retry,
\* pending timer and pending ticker unchanged
C26_InstancesIndependent ==
    [][\A i \in Instances : \A j \in Instances \ {i} :
            G'.actor = i => Exposed(Inst(j))' = Exposed(Inst(j))]_vars

\* instance 1 has just become exhausted while instance 2 is backing off with
\* its retry timer and its countdown pending
C26_Witness ==
    /\ G.actor = 1
    /\ Exposed(Inst(1)).failureCount >= 5
    /\ Exposed(Inst(2)).secondsToRetry # None
    /\ Exposed(Inst(2)).timer # None /\ Exposed(Inst(2)).ticker # None
    /\ Exposed(Inst(2)).failureCount \in 1..4

\* the seconds-to-retry as a number: 0 when none is shown
Seconds == IF SecondsToRetry = None THEN 0 ELSE The(SecondsToRetry)

\* a step that delivers a failure and starts a backoff wait
C31_StartsAtCeiling ==
    (event'.op = "done" /\ Mounted' /\ BackingOff' /\ FetchTimer' # None) =>
        SecondsToRetry' = Some(CeilSeconds(The(FetchTimer')))

\* a step within a backoff wait: time passing or a countdown tick
C31_CountsDown ==
    (Mounted /\ BackingOff /\ FetchTimer # None /\ event'.op \in {"time", "tick"}) =>
        /\ Seconds' <= Seconds /\ Seconds' >= 0
        /\ SecondsToRetry' # SecondsToRetry => event'.op = "tick"

\* the step in which the fetch timer of a backoff wait issues the retry fetch
C31_TickerGoneAtRetry ==
    (Mounted /\ BackingOff /\ event'.op = "timer" /\ InFlight' > InFlight) =>
        Ticker' = None

\* C31: during one backoff wait of delay d the seconds-to-retry starts at
\* ceil(d/1000), never increases, is never negative and changes only at
\* one-second ticks, and the countdown ticker is cancelled no later than the
\* moment the retry fetch is issued
C31_Countdown ==
    [][C31_StartsAtCeiling /\ C31_CountsDown /\ C31_TickerGoneAtRetry]_vars

\* the scope table of the specification: label, kind, isTerminal
ClaimedScopeRow(status) ==
    CASE status \in {"pending", "queued"} -> <<"Queued", "pending", FALSE>>
      [] status = "running" -> <<"Scoping...", "active", FALSE>>
      [] status = "paused" -> <<"Paused", "warning", FALSE>>
      [] status = "finished" -> <<"Scoped", "success", TRUE>>
      [] status = "failed" -> <<"Scope failed", "error", TRUE>>
      [] status = "cancelled" -> <<"Cancelled", "error", TRUE>>
      [] status = "expired" -> <<"Expired", "error", TRUE>>

\* C32: for a scope session and every known raw status other than blocked,
\* deriveWorkflowStatus gives the label, kind and isTerminal of the
\* specification table, needsAttention true for failed, and the same result
\* for every structured output and pull-request URL
C32_ScopeTable ==
    ( /\ Returned("deriveWorkflowStatus")
      /\ call.args.type = "scope"
      /\ call.args.statusEnum # None
      /\ The(call.args.statusEnum) \in KnownStatuses \ {"blocked"} )
    => LET status == The(call.args.statusEnum) IN
       /\ <<Ret.label, Ret.kind, Ret.isTerminal>> = ClaimedScopeRow(status)
       /\ status = "failed" => Ret.needsAttention
       /\ \A o \in Optional(Outputs), u \in Optional(PullRequestUrls) :
            deriveWorkflowStatus("scope", Some(status), o, u) = Ret

C32_Witness ==
    /\ Derived("scope", "failed")
    /\ call.args.structuredOutput # None /\ call.args.pullRequestUrl # None
    /\ Ret.label = "Scope failed" /\ Ret.isTerminal /\ Ret.needsAttention

\* the raw statuses the two session kinds are said to handle alike
SharedStatuses ==
    {"pending", "queued", "running", "paused", "failed", "cancelled", "expired"}

\* C33: for every raw status in pending, queued, running, paused, failed,
\* cancelled, expired and every structured output and pull-request URL, the
\* execute and the scope derivation have the same kind, the same isTerminal
\* and the same needsAttention
C33_ExecuteLikeScope ==
    ( /\ Returned("deriveWorkflowStatus")
      /\ call.args.statusEnum # None
      /\ The(call.args.statusEnum) \in SharedStatuses )
    => LET other == deriveWorkflowStatus(
                        IF call.args.type = "scope" THEN "execute" ELSE "scope",
                        call.args.statusEnum, call.args.structuredOutput,
                        call.args.pullRequestUrl)
       IN /\ Ret.kind = other.kind
          /\ Ret.isTerminal = other.isTerminal
          /\ Ret.needsAttention = other.needsAttention

C33_Witness ==
    /\ Derived("execute", "paused")
    /\ call.args.structuredOutput # None
    /\ Ret.kind = "warning" /\ Ret.needsAttention /\ ~Ret.isTerminal

\* the callback of the pending fetch timer would issue a fetch: its guard
\* (hook A: isPollingRef; hook B: isMountedRef and the isPolling of the poll
\* that pollRef holds) passes
TimerWillFetch ==
    /\ FetchTimer # None
    /\ IF hook = "A" THEN A.isPollingRef
       ELSE B.isMountedRef /\ B.pollRef.isPolling

\* C34: in every reachable state in which the hook is mounted and reports
\* backing off (hook A: 'degraded'; hook B: isReconnecting), a fetch is in
\* flight or a fetch timer is pending whose expiry will issue a fetch, so
\* that a degraded poller never stays degraded with nothing scheduled
C34_BackingOffHasFetchAhead ==
    (Mounted /\ BackingOff) => (InFlight > 0 \/ TimerWillFetch)

\* the raw status of the snapshot a session of the strip delivered, "" if
\* it is not attached or has delivered none
StripStatus(sessionId, data) ==
    IF sessionId = None \/ data = None THEN "" ELSE The(data).status_enum

\* C35: StatusStrip renders an attention message if and only if an execute
\* session is attached and its latest snapshot has raw status 'blocked';
\* a scope or execute session that is paused or failed has needsAttention
\* true and no detail, and produces no message
C35_AttentionIffExecuteBlocked ==
    Returned("StatusStrip") =>
        LET scopeStatus == StripStatus(call.args.scopeSessionId, call.args.scopeData)
            executeStatus ==
                StripStatus(call.args.executeSessionId, call.args.executeData)
        IN  /\ (Ret.rendered /\ Ret.attention # None) <=> executeStatus = "blocked"
            /\ scopeStatus \in {"paused", "failed"} =>
                /\ The(Ret.scopeWorkflow).needsAttention
                /\ The(Ret.scopeWorkflow).detail = None
            /\ executeStatus \in {"paused", "failed"} =>
                /\ The(Ret.executeWorkflow).needsAttention
                /\ The(Ret.executeWorkflow).detail = None

\* the execute session is blocked while the scope session is paused: the
\* message is the execute session's
C35_Witness ==
    /\ Returned("StatusStrip")
    /\ StripStatus(call.args.executeSessionId, call.args.executeData) = "blocked"
    /\ StripStatus(call.args.scopeSessionId, call.args.scopeData) = "paused"
    /\ Ret.attention # None /\ The(Ret.attention).text = "Needs input"

Responded == X.route # "none" /\ X.pc = "done"

Status == The(X.response).status

\* C36: POST /api/issues/:number/execute calls createSession at most once,
\* and only after these checks passed in this order: the issue number
\* parses, the body carries a scopeSessionId, the scope session fetched has
\* a structured_output, the issue was fetched, GITHUB_TOKEN is set; when one
\* of the first three fails the response is 400 and nothing was created
C36_ExecuteGuards ==
    X.route = "execute" =>
        /\ X.creates <= 1
        /\ X.creates = 1 =>
            X.trail = <<"number", "scopeSessionId", "scopeOutput", "issue", "token">>
        /\ ( /\ Responded
             /\ \/ ParseInt(X.number) = NaN
                \/ X.body.scopeSessionId \in {Absent, ""}
                \/ X.scope # None /\ devinThrows(The(X.scope)) = ""
                                  /\ The(X.scope).structured_output = None )
           => (Status = 400 /\ X.creates = 0)

Upstream == The(X.upstream)

\* the Devin API answered getSession with an error status
UpstreamError == X.upstream # None /\ ~Upstream.net /\ ~IsOk(Upstream.status)

\* C39: GET /api/sessions/:sessionId answers every failure of getSession
\* with an error response: 500 for a missing environment variable, 404 for
\* an upstream 404, 502 for every other upstream error status, 500 for
\* anything else; to the poller only the 404 and the 500 are permanent and
\* every other upstream error is transient
C39_SessionsErrorTable ==
    (X.route = "sessions" /\ Responded /\ X.sessionId # "") =>
        /\ ~X.env.DEVIN_API_KEY => Status = 500
        /\ (UpstreamError /\ Upstream.status = 404) => Status = 404
        /\ (UpstreamError /\ Upstream.status # 404) =>
            (Status = 502 /\ isTransientErrorA(Some(Status), FALSE))
        /\ (X.upstream # None /\ ~UpstreamError /\ devinThrows(Upstream) # "") =>
            Status = 500
        /\ Status \in {404, 500} => ~isTransientErrorA(Some(Status), FALSE)

\* the entries of one kind in a row's sessions list
EntriesOf(row, type) ==
    { i \in DOMAIN row.sessions : row.sessions[i].type = type }

EntryOf(row, type) == { row.sessions[i] : i \in EntriesOf(row, type) }

OnePerKind(rows) ==
    \A n \in Issues : \A k \in SessionKinds : Cardinality(EntriesOf(rows[n], k)) <= 1

\* a handler of a live component resumed in this step: its request
Resumed ==
    { q \in R.requests : /\ ~q.orphan /\ q \notin R'.requests
                         /\ R'.rows[q.issue].phase = "mounted"
                         /\ Cardinality(R'.requests) < Cardinality(R.requests) }

\* a handler sent its request in this step
Sent ==
    { q \in R'.requests : q \notin R.requests
                          /\ Cardinality(R'.requests) > Cardinality(R.requests) }

C38_FailureLeavesSessions ==
    [][ \A q \in Resumed :
            /\ R'.rows[q.issue].isLoading = None
            /\ q.session_id = None =>
                /\ R'.rows[q.issue].sessions = R.rows[q.issue].sessions
                /\ R'.localStorage = R.localStorage
                /\ R'.rows[q.issue].error # None
      ]_vars

\* a re-creation failed on a row that holds a session
C38_Witness ==
    \E n \in Issues :
        /\ R.rows[n].phase = "mounted" /\ R.rows[n].error # None
        /\ R.rows[n].isLoading = None /\ Len(R.rows[n].sessions) > 0
        /\ R.localStorage[getStorageKey(n, "scope")] # None

====
